---------------------------- MODULE Spec2Model ----------------------------
(***************************************************************************)
(* Lazy Fisher-Yates shuffler (lazy_fisher_yates_shuffler): the strike     *)
(* tree with 64-bit bitmap leaves, the index/value stores of the           *)
(* persistence manager, and the Shuffler operations value_at, index_of,    *)
(* resize, validate_state and construction over an existing persistence    *)
(* manager.                                                                *)
(*                                                                         *)
(* Python integers are unbounded.  Ordinary numbers (sizes, indexes, keys, *)
(* counts) are TLA+ integers.  A 64-bit word (a struck bitmap, and each     *)
(* word of the bit count) is four 16-bit limbs, with shift, mask, add and  *)
(* subtract defined on the limbs.                                          *)
(***************************************************************************)
EXTENDS Integers, Sequences, FiniteSets, TLC

(***************************************************************************)
(* Constants and 64-bit words                                              *)
(***************************************************************************)

\* Shuffler._TERMINAL_SIZE
TERMINAL_SIZE == 64

\* Shuffler._TERMINAL_SIZE_BITMASK = _TERMINAL_SIZE - 1
TERMINAL_SIZE_BITMASK == TERMINAL_SIZE - 1

RECURSIVE bit_count(_)
\* int.bit_count() of a non-negative integer
bit_count(n) == IF n = 0 THEN 0 ELSE (n % 2) + bit_count(n \div 2)

RECURSIVE bit_length(_)
\* int.bit_length() of a non-negative integer
bit_length(n) == IF n = 0 THEN 0 ELSE 1 + bit_length(n \div 2)

\* Shuffler._TERMINAL_SIZE_BIT_COUNT = _TERMINAL_SIZE_BITMASK.bit_count()
TERMINAL_SIZE_BIT_COUNT == bit_count(TERMINAL_SIZE_BITMASK)

\* A 64-bit word (a struck bitmap, and each word of the bit count) is four
\* 16-bit limbs, least significant first
Limbs == 1 .. 4

\* 2^16
LimbBase == 65536

\* The word 0
WORD_ZERO == <<0, 0, 0, 0>>

\* Shuffler._TERMINAL_BIT_MANAGER.all_bits: BitManager(64).all_bits
TERMINAL_ALL_BITS == <<LimbBase - 1, LimbBase - 1, LimbBase - 1, LimbBase - 1>>

\* Limb i of a word, zero beyond the fourth
Limb(w, i) == IF i \in Limbs THEN w[i] ELSE 0

RECURSIVE And4(_, _)
\* x & y on 4-bit digits
And4(x, y) ==
    IF x = 0 \/ y = 0 THEN 0
    ELSE (x % 2) * (y % 2) + 2 * And4(x \div 2, y \div 2)

\* The table of x & y on 4-bit digits
And4Table == [x \in 0 .. 15 |-> [y \in 0 .. 15 |-> And4(x, y)]]

\* x & y on 16-bit limbs, digit by digit
And16(x, y) ==
    And4Table[x % 16][y % 16]
    + 16 * And4Table[(x \div 16) % 16][(y \div 16) % 16]
    + 256 * And4Table[(x \div 256) % 16][(y \div 256) % 16]
    + 4096 * And4Table[x \div 4096][y \div 4096]

\* Shuffler._BIT_COUNT_BITMASK_2 = 0x5555555555555555
BIT_COUNT_BITMASK_2 == <<21845, 21845, 21845, 21845>>

\* Shuffler._BIT_COUNT_BITMASK_4 = 0x3333333333333333
BIT_COUNT_BITMASK_4 == <<13107, 13107, 13107, 13107>>

\* Shuffler._BIT_COUNT_BITMASK_8 = 0x0F0F0F0F0F0F0F0F
BIT_COUNT_BITMASK_8 == <<3855, 3855, 3855, 3855>>

\* a & b on words
WordAnd(a, b) ==
    <<And16(a[1], b[1]), And16(a[2], b[2]), And16(a[3], b[3]), And16(a[4], b[4])>>

\* Limb i of a >> n
ShrLimb(a, n, i) ==
    (Limb(a, i + (n \div 16)) \div (2 ^ (n % 16)))
    + (Limb(a, i + (n \div 16) + 1) % (2 ^ (n % 16))) * (2 ^ (16 - (n % 16)))

\* a >> n on words, 0 <= n < 64
WordShr(a, n) == <<ShrLimb(a, n, 1), ShrLimb(a, n, 2), ShrLimb(a, n, 3), ShrLimb(a, n, 4)>>

\* Carry out of limb i of a + b
AddCarry(a, b, i) ==
    IF i = 0 THEN 0
    ELSE IF i = 1 THEN (a[1] + b[1]) \div LimbBase
    ELSE IF i = 2 THEN (a[2] + b[2] + ((a[1] + b[1]) \div LimbBase)) \div LimbBase
    ELSE (a[3] + b[3]
          + ((a[2] + b[2] + ((a[1] + b[1]) \div LimbBase)) \div LimbBase)) \div LimbBase

\* a + b on words (no sum of the bit count leaves 64 bits)
WordAdd(a, b) ==
    <<(a[1] + b[1]) % LimbBase,
      (a[2] + b[2] + AddCarry(a, b, 1)) % LimbBase,
      (a[3] + b[3] + AddCarry(a, b, 2)) % LimbBase,
      (a[4] + b[4] + AddCarry(a, b, 3)) % LimbBase>>

\* Borrow out of limb i of a - b
SubBorrow(a, b, i) ==
    IF i = 0 THEN 0
    ELSE IF i = 1 THEN (IF a[1] < b[1] THEN 1 ELSE 0)
    ELSE IF i = 2 THEN (IF a[2] < b[2] + (IF a[1] < b[1] THEN 1 ELSE 0) THEN 1 ELSE 0)
    ELSE (IF a[3] < b[3] + (IF a[2] < b[2] + (IF a[1] < b[1] THEN 1 ELSE 0)
                            THEN 1 ELSE 0)
          THEN 1 ELSE 0)

\* a - b on words, for a >= b
WordSub(a, b) ==
    <<(a[1] - b[1]) % LimbBase,
      (a[2] - b[2] - SubBorrow(a, b, 1)) % LimbBase,
      (a[3] - b[3] - SubBorrow(a, b, 2)) % LimbBase,
      (a[4] - b[4] - SubBorrow(a, b, 3)) % LimbBase>>

\* a ^ b on words, for b = all bits
WordInvert(a) == <<TERMINAL_ALL_BITS[1] - a[1], TERMINAL_ALL_BITS[2] - a[2],
                   TERMINAL_ALL_BITS[3] - a[3], TERMINAL_ALL_BITS[4] - a[4]>>

\* The integer value of the low n bits of a word (n is at most 6 here)
LowValue(a, n) == a[1] % (2 ^ n)

\* Bit j of a word is set
WordIsSet(a, j) == (a[(j \div 16) + 1] \div (2 ^ (j % 16))) % 2 = 1

\* _TERMINAL_BIT_MANAGER.set(a, j): a | bit(j)
WordSet(a, j) ==
    IF WordIsSet(a, j) THEN a
    ELSE [a EXCEPT ![(j \div 16) + 1] = @ + (2 ^ (j % 16))]

\* _TERMINAL_BIT_MANAGER.clear(a, j): a & not_bit(j)
WordClear(a, j) ==
    IF WordIsSet(a, j) THEN [a EXCEPT ![(j \div 16) + 1] = @ - (2 ^ (j % 16))]
    ELSE a

\* int.bit_count() of a word
WordBitCount(a) == bit_count(a[1]) + bit_count(a[2]) + bit_count(a[3]) + bit_count(a[4])

\* The bit positions set in a word
WordBits(a) == {j \in 0 .. (TERMINAL_SIZE - 1) : WordIsSet(a, j)}

(***************************************************************************)
(* BitManager on ordinary integers                                         *)
(***************************************************************************)

\* BitManager.bit
bit(bit_number) == 2 ^ bit_number

\* BitManager.is_set: value & bit(bit_number) != 0
is_set(value, bit_number) == (value \div bit(bit_number)) % 2 = 1

\* BitManager.is_clear: value & bit(bit_number) == 0
is_clear(value, bit_number) == (value \div bit(bit_number)) % 2 = 0

\* BitManager.set: value | bit(bit_number)
set(value, bit_number) ==
    IF is_set(value, bit_number) THEN value ELSE value + bit(bit_number)

\* BitManager.clear: value & not_bit(bit_number)
clear(value, bit_number) ==
    IF is_set(value, bit_number) THEN value - bit(bit_number) ELSE value

\* all_bits one bit short: 2^(bit_count-1) - 1
all_bitsShort(bit_count_) == (2 ^ (bit_count_ - 1)) - 1

\* BitManager(bit_count).all_bits = 2^bit_count - 1
all_bits(bit_count_) == (2 ^ bit_count_) - 1

\* Python's ~x on integers
Invert(x) == (-x) - 1

RECURSIVE bit_or(_, _)
\* a | b on non-negative integers
bit_or(a, b) ==
    IF a = 0 THEN b
    ELSE IF b = 0 THEN a
    ELSE (IF a % 2 = 1 \/ b % 2 = 1 THEN 1 ELSE 0) + 2 * bit_or(a \div 2, b \div 2)

(***************************************************************************)
(* The terminal search of _next_value: the unstruck bit of a 64-bit leaf   *)
(* selected by the incremental value, by the bit count of Hacker's Delight *)
(* Figure 5-2 followed by the unrolled binary search.                      *)
(***************************************************************************)

\* One block of the unrolled search taking the right half only when the bit
\* count is strictly less than the remaining incremental value
SearchStepStrict(counts, mask_bits, step_bit, st) ==
    LET right_bit_count == LowValue(WordShr(counts, st.terminal_value), mask_bits)
    IN  IF right_bit_count < st.remaining
        THEN [remaining |-> st.remaining - right_bit_count,
              terminal_value |-> set(st.terminal_value, step_bit)]
        ELSE st

\* One block of the unrolled search: the bit count shifted right by the
\* terminal value found so far and masked to mask_bits bits is compared with
\* the remaining incremental value; if less than or equal, it is subtracted
\* and bit step_bit is or-ed into the terminal value.
SearchStep(counts, mask_bits, step_bit, st) ==
    LET right_bit_count == LowValue(WordShr(counts, st.terminal_value), mask_bits)
    IN  IF right_bit_count <= st.remaining
        THEN [remaining |-> st.remaining - right_bit_count,
              terminal_value |-> set(st.terminal_value, step_bit)]
        ELSE st

\* bit_count_1 = struck_bitmap ^ all_bits: the unstruck bits
BitCount1(struck_bitmap) == WordInvert(struck_bitmap)

\* bit_count_2 = bit_count_1 - (bit_count_1 >> 0x01 & _BIT_COUNT_BITMASK_2)
BitCount2(bit_count_1) ==
    WordSub(bit_count_1, WordAnd(WordShr(bit_count_1, 1), BIT_COUNT_BITMASK_2))

\* bit_count_4 = (bit_count_2 & MASK_4) + (bit_count_2 >> 0x02 & MASK_4)
BitCount4(bit_count_2) ==
    WordAdd(WordAnd(bit_count_2, BIT_COUNT_BITMASK_4),
            WordAnd(WordShr(bit_count_2, 2), BIT_COUNT_BITMASK_4))

\* BitCount8 without the mask
BitCount8Unmasked(bit_count_4) == WordAdd(bit_count_4, WordShr(bit_count_4, 4))

\* bit_count_8 = (bit_count_4 + (bit_count_4 >> 0x04)) & MASK_8
BitCount8(bit_count_4) ==
    WordAnd(WordAdd(bit_count_4, WordShr(bit_count_4, 4)), BIT_COUNT_BITMASK_8)

\* bit_count_16 = bit_count_8 + (bit_count_8 >> 0x08)
BitCount16(bit_count_8) == WordAdd(bit_count_8, WordShr(bit_count_8, 8))

\* bit_count_32 = bit_count_16 + (bit_count_16 >> 0x10)
BitCount32(bit_count_16) == WordAdd(bit_count_16, WordShr(bit_count_16, 16))

\* The six blocks of the search over the bit counts
SearchBlocks(c1, c2, c4, c8, c16, c32, incremental_value) ==
    SearchStep(c1, 1, 0,
      SearchStep(c2, 2, 1,
        SearchStep(c4, 3, 2,
          SearchStep(c8, 4, 3,
            SearchStep(c16, 5, 4,
              SearchStep(c32, 6, 5,
                [remaining |-> incremental_value, terminal_value |-> 0]))))))

SearchFrom8(c1, c2, c4, c8, incremental_value) ==
    SearchBlocks(c1, c2, c4, c8, BitCount16(c8), BitCount32(BitCount16(c8)),
                 incremental_value)

SearchFrom2(c1, c2, incremental_value) ==
    SearchFrom8(c1, c2, BitCount4(c2), BitCount8(BitCount4(c2)), incremental_value)

\* [terminal_value, remaining]: the bit the search selects in struck_bitmap
\* for incremental_value, and what is left of the incremental value
\* (terminal_incremental_value_remaining).
TerminalSearch(struck_bitmap, incremental_value) ==
    SearchFrom2(BitCount1(struck_bitmap), BitCount2(BitCount1(struck_bitmap)),
                incremental_value)

(***************************************************************************)
(* The shuffler together with its persistence manager, as one record s:    *)
(*   size, cyclic, remaining_size   Shuffler._size, _cyclic,               *)
(*                                  _remaining_size                        *)
(*   root_key, root_bit             key and bit_number of Shuffler._root   *)
(*   mem        the _Node objects reachable from the root: a function from *)
(*              the path of a node (<<>> the root, 0 = right, 1 = left) to *)
(*              [struck_count, struck_bitmap]                              *)
(*   nodes      MemoryPersistenceManager._node_state_store                 *)
(*   iv, vi     MemoryPersistenceManager._index_value_store and            *)
(*              _value_index_store                                         *)
(*   log        the persistence writes of the running call, in order       *)
(*   raised     the exception that ended the running call, or "none"       *)
(***************************************************************************)

\* dict[k] = v
Put(f, k, v) == [y \in (DOMAIN f) \cup {k} |-> IF y = k THEN v ELSE f[y]]

\* del dict[k]
Remove(f, k) == [y \in (DOMAIN f) \ {k} |-> f[y]]

\* The empty dict
Empty == [y \in {} |-> 0]

\* NodeState(struck_count, struck_bitmap)
NodeState(struck_count, struck_bitmap) ==
    [struck_count |-> struck_count, struck_bitmap |-> struck_bitmap]

\* An exception leaves the call at once
Raise(s, exception) == [s EXCEPT !.raised = exception]

\* MemoryPersistenceManager.save_node_state
pm_save_node_state(s, key, node_state) ==
    [s EXCEPT !.nodes = Put(s.nodes, key, node_state),
              !.log = Append(s.log, [op |-> "save_node_state", k |-> key, v |-> node_state])]

\* Optional[...]: None is <<>>, a value v is <<v>>
None == <<>>

\* MemoryPersistenceManager.restore_node_state
pm_restore_node_state(s, key) ==
    IF key \in DOMAIN s.nodes THEN <<s.nodes[key]>> ELSE None

\* MemoryPersistenceManager.delete_node_state: del raises KeyError on a
\* missing key
pm_delete_node_state(s, key) ==
    IF key \in DOMAIN s.nodes
    THEN [s EXCEPT !.nodes = Remove(s.nodes, key),
                   !.log = Append(s.log, [op |-> "delete_node_state", k |-> key, v |-> NodeState(0, WORD_ZERO)])]
    ELSE Raise(s, "KeyError")

\* save_index_value that keeps the index-to-value entry only
pm_save_index_value_forward(s, index, value) ==
    [s EXCEPT !.iv = Put(s.iv, index, value),
              !.log = Append(s.log, [op |-> "save_index_value", k |-> index, v |-> value])]

\* MemoryPersistenceManager.save_index_value
pm_save_index_value(s, index, value) ==
    [s EXCEPT !.iv = Put(s.iv, index, value),
              !.vi = Put(s.vi, value, index),
              !.log = Append(s.log, [op |-> "save_index_value", k |-> index, v |-> value])]

\* MemoryPersistenceManager.delete_index_value: the value-to-index entry is
\* deleted first, then the index-to-value entry
pm_delete_index_value(s, index, value) ==
    IF value \notin DOMAIN s.vi THEN Raise(s, "KeyError")
    ELSE IF index \notin DOMAIN s.iv
         THEN Raise([s EXCEPT !.vi = Remove(s.vi, value)], "KeyError")
         ELSE [s EXCEPT !.vi = Remove(s.vi, value),
                        !.iv = Remove(s.iv, index),
                        !.log = Append(s.log, [op |-> "delete_index_value", k |-> index, v |-> value])]

\* MemoryPersistenceManager.value_at
pm_value_at(s, index) == IF index \in DOMAIN s.iv THEN <<s.iv[index]>> ELSE None

\* MemoryPersistenceManager.index_of
pm_index_of(s, value) == IF value \in DOMAIN s.vi THEN <<s.vi[value]>> ELSE None

(***************************************************************************)
(* _Node                                                                   *)
(***************************************************************************)

\* _Node.bit_number of the node at path
NodeBitNumber(s, path) == s.root_bit - Len(path)

\* _Node.terminal
NodeTerminal(s, path) == NodeBitNumber(s, path) = TERMINAL_SIZE_BIT_COUNT - 1

\* RightKey giving the right child the key of the left child
RightKeyDecrement(key, bit_number) == key - 1

\* Key of a right child: key - 2^(bit_number+1)
RightKey(key, bit_number) == key - bit(bit_number + 1)

\* Key of a left child: key - 1
LeftKey(key, bit_number) == key - 1

RECURSIVE NodeKey(_, _)
\* _Node.key of the node at path
NodeKey(s, path) ==
    IF path = <<>> THEN s.root_key
    ELSE LET parent == SubSeq(path, 1, Len(path) - 1)
         IN  IF path[Len(path)] = 0
             THEN RightKey(NodeKey(s, parent), NodeBitNumber(s, parent))
             ELSE LeftKey(NodeKey(s, parent), NodeBitNumber(s, parent))

\* A new node that never restores its state
NewNodeZero(s, key, restore) == NodeState(0, WORD_ZERO)

\* _Node.__init__: the struck count and bitmap of a new node
NewNode(s, key, restore) ==
    LET node_state == IF restore THEN pm_restore_node_state(s, key) ELSE None
    IN  IF node_state = None THEN NodeState(0, WORD_ZERO) ELSE node_state[1]

\* _Node.init_right_left: the child restores iff self has a non-zero count
init_right_left(s, path, key) == NewNode(s, key, s.mem[path].struck_count # 0)

\* _Node.right: constructed if necessary
WithRight(s, path) ==
    IF Append(path, 0) \in DOMAIN s.mem THEN s
    ELSE [s EXCEPT !.mem = Put(s.mem, Append(path, 0),
                               init_right_left(s, path, NodeKey(s, Append(path, 0))))]

\* _Node.left: constructed if necessary
WithLeft(s, path) ==
    IF Append(path, 1) \in DOMAIN s.mem THEN s
    ELSE [s EXCEPT !.mem = Put(s.mem, Append(path, 1),
                               init_right_left(s, path, NodeKey(s, Append(path, 1))))]

\* Shuffler.save_node_state
save_node_state(s, path) ==
    pm_save_node_state(s, NodeKey(s, path),
                       NodeState(s.mem[path].struck_count, s.mem[path].struck_bitmap))

(***************************************************************************)
(* Shuffler._next_value                                                    *)
(***************************************************************************)

\* NextValueTerminal without the mark in the struck bitmap
NextValueTerminalUnmarked(s, path, incremental_value, value) ==
    LET found == TerminalSearch(s.mem[path].struck_bitmap, incremental_value)
    IN  IF found.remaining # 0
        THEN [st |-> Raise(s, "AssertionError"), value |-> value]
        ELSE [st |-> save_node_state(s, path),
              value |-> bit_or(value, found.terminal_value)]

\* The terminal branch of the loop body: search, mark, accumulate, save
NextValueTerminal(s, path, incremental_value, value) ==
    LET found == TerminalSearch(s.mem[path].struck_bitmap, incremental_value)
    IN  IF found.remaining # 0
        THEN [st |-> Raise(s, "AssertionError"), value |-> value]
        ELSE LET t == [s EXCEPT !.mem[path].struck_bitmap = WordSet(@, found.terminal_value)]
             IN  [st |-> save_node_state(t, path),
                  value |-> bit_or(value, found.terminal_value)]

RECURSIVE NextValueLoopUnnormalized(_, _, _, _)
\* NextValueLoop choosing the side by the incremental value alone, without
\* the right node's struck count
NextValueLoopUnnormalized(s, path, incremental_value, value) ==
    LET s1 == [s EXCEPT !.mem[path].struck_count = @ + 1]
    IN  IF NodeTerminal(s1, path)
        THEN NextValueTerminal(s1, path, incremental_value, value)
        ELSE LET s2 == WithRight(s1, path)
                 bit_number == NodeBitNumber(s2, path)
             IN  IF is_clear(incremental_value, bit_number)
                 THEN NextValueLoopUnnormalized(save_node_state(s2, path), Append(path, 0),
                                                incremental_value, value)
                 ELSE NextValueLoopUnnormalized(save_node_state(WithLeft(s2, path), path),
                                                Append(path, 1),
                                                clear(incremental_value, bit_number),
                                                set(value, bit_number))

RECURSIVE NextValueLoop(_, _, _, _)
\* The while loop of _next_value from the node at path: [st, value]
NextValueLoop(s, path, incremental_value, value) ==
    LET s1 == [s EXCEPT !.mem[path].struck_count = @ + 1]
    IN  IF NodeTerminal(s1, path)
        THEN NextValueTerminal(s1, path, incremental_value, value)
        ELSE LET s2 == WithRight(s1, path)
                 bit_number == NodeBitNumber(s2, path)
                 right_normalized_output ==
                     incremental_value + s2.mem[Append(path, 0)].struck_count
             IN  IF is_clear(right_normalized_output, bit_number)
                 THEN NextValueLoop(save_node_state(s2, path), Append(path, 0),
                                    incremental_value, value)
                 ELSE NextValueLoop(save_node_state(WithLeft(s2, path), path),
                                    Append(path, 1),
                                    clear(right_normalized_output, bit_number),
                                    set(value, bit_number))

\* next_value counting the draw from the highest unstruck entry down
next_valueFromTop(s, k) ==
    IF s.remaining_size <= 0 \/ k >= s.remaining_size
    THEN [st |-> Raise(s, "ValueError"), value |-> 0]
    ELSE NextValueLoop([s EXCEPT !.remaining_size = @ - 1], <<>>,
                       s.remaining_size - 1 - k, 0)

\* _next_value that leaves the remaining size as it was
next_valueUncounted(s, k) ==
    IF s.remaining_size <= 0 \/ k >= s.remaining_size
    THEN [st |-> Raise(s, "ValueError"), value |-> 0]
    ELSE NextValueLoop(s, <<>>, k, 0)

\* Shuffler._next_value with the random draw k: [st, value].  randrange
\* raises ValueError on an empty range.
next_value(s, k) ==
    IF s.remaining_size <= 0 \/ k >= s.remaining_size
    THEN [st |-> Raise(s, "ValueError"), value |-> 0]
    ELSE NextValueLoop([s EXCEPT !.remaining_size = @ - 1], <<>>, k, 0)

(***************************************************************************)
(* Shuffler.value_at                                                       *)
(***************************************************************************)

\* ValueAtFinish that never stores the pair
ValueAtFinishUnsaved(s, index, value, randomized) ==
    IF s.raised # "none" THEN [st |-> s, value |-> value, randomized |-> randomized]
    ELSE [st |-> IF 0 <= value /\ value < s.size THEN s
                 ELSE Raise(s, "AssertionError"),
          value |-> value, randomized |-> randomized]

\* The end of value_at: store the pair if it was generated, then the bounds
\* assertion.  [st, value, randomized]
ValueAtFinish(s, index, value, randomized) ==
    IF s.raised # "none" THEN [st |-> s, value |-> value, randomized |-> randomized]
    ELSE LET s1 == IF randomized THEN pm_save_index_value(s, index, value) ELSE s
         IN  [st |-> IF 0 <= value /\ value < s1.size THEN s1
                     ELSE Raise(s1, "AssertionError"),
              value |-> value, randomized |-> randomized]

RECURSIVE ReserveLoopUnmarked(_, _, _, _)
\* ReserveLoop that counts the loop start but leaves its bit clear
ReserveLoopUnmarked(s, path, loop_start, terminal_bit_number) ==
    LET s1 == [s EXCEPT !.mem[path].struck_count = @ + 1]
    IN  IF NodeTerminal(s1, path)
        THEN [st |-> save_node_state(s1, path), reserved_nodes |-> <<path>>]
        ELSE LET down == IF is_clear(loop_start, NodeBitNumber(s1, path)) THEN 0 ELSE 1
                 s2 == IF down = 0 THEN WithRight(s1, path) ELSE WithLeft(s1, path)
                 rest == ReserveLoopUnmarked(save_node_state(s2, path), Append(path, down),
                                             loop_start, terminal_bit_number)
             IN  [st |-> rest.st, reserved_nodes |-> <<path>> \o rest.reserved_nodes]

RECURSIVE ReserveLoop(_, _, _, _)
\* The reserve descent of the cyclic value_at from the node at path:
\* [st, reserved_nodes], reserved_nodes in root-to-terminal order
ReserveLoop(s, path, loop_start, terminal_bit_number) ==
    LET s1 == [s EXCEPT !.mem[path].struck_count = @ + 1]
    IN  IF NodeTerminal(s1, path)
        THEN LET s2 == [s1 EXCEPT !.mem[path].struck_bitmap = WordSet(@, terminal_bit_number)]
             IN  [st |-> save_node_state(s2, path), reserved_nodes |-> <<path>>]
        ELSE LET down == IF is_clear(loop_start, NodeBitNumber(s1, path)) THEN 0 ELSE 1
                 s2 == IF down = 0 THEN WithRight(s1, path) ELSE WithLeft(s1, path)
                 rest == ReserveLoop(save_node_state(s2, path), Append(path, down),
                                     loop_start, terminal_bit_number)
             IN  [st |-> rest.st, reserved_nodes |-> <<path>> \o rest.reserved_nodes]

RECURSIVE UnreserveLoopSaved(_, _, _, _)
\* UnreserveLoop that saves every unreserved node, also one whose struck
\* count is back to zero
UnreserveLoopSaved(s, reserved_nodes, j, terminal_bit_number) ==
    IF j > Len(reserved_nodes) \/ s.raised # "none" THEN s
    ELSE LET path == reserved_nodes[j]
             s1 == [s EXCEPT !.mem[path].struck_count = @ - 1]
             s2 == IF NodeTerminal(s1, path)
                   THEN [s1 EXCEPT !.mem[path].struck_bitmap = WordClear(@, terminal_bit_number)]
                   ELSE s1
         IN  UnreserveLoopSaved(save_node_state(s2, path), reserved_nodes, j + 1,
                                terminal_bit_number)

RECURSIVE UnreserveLoopBitKept(_, _, _, _)
\* UnreserveLoop that leaves the loop start's bit set in the terminal
UnreserveLoopBitKept(s, reserved_nodes, j, terminal_bit_number) ==
    IF j > Len(reserved_nodes) \/ s.raised # "none" THEN s
    ELSE LET path == reserved_nodes[j]
             s1 == [s EXCEPT !.mem[path].struck_count = @ - 1]
             s3 == IF s1.mem[path].struck_count # 0
                   THEN save_node_state(s1, path)
                   ELSE pm_delete_node_state(s1, NodeKey(s1, path))
         IN  UnreserveLoopBitKept(s3, reserved_nodes, j + 1, terminal_bit_number)

RECURSIVE UnreserveLoop(_, _, _, _)
\* The unreserve loop over reserved_nodes[j..]
UnreserveLoop(s, reserved_nodes, j, terminal_bit_number) ==
    IF j > Len(reserved_nodes) \/ s.raised # "none" THEN s
    ELSE LET path == reserved_nodes[j]
             s1 == [s EXCEPT !.mem[path].struck_count = @ - 1]
             s2 == IF NodeTerminal(s1, path)
                   THEN [s1 EXCEPT !.mem[path].struck_bitmap = WordClear(@, terminal_bit_number)]
                   ELSE s1
             s3 == IF s2.mem[path].struck_count # 0
                   THEN save_node_state(s2, path)
                   ELSE pm_delete_node_state(s2, NodeKey(s2, path))
         IN  UnreserveLoop(s3, reserved_nodes, j + 1, terminal_bit_number)

\* ValueAtCyclicUnreserved that leaves the remaining size as the draw left it
ValueAtCyclicUnreservedStale(s, index, value, reserved_remaining_size) ==
    ValueAtFinish(s, index, value, TRUE)

\* After the unreserve: the remaining size is set back to the reserved
\* remaining size and the pair is stored
ValueAtCyclicUnreserved(s, index, value, reserved_remaining_size) ==
    IF s.raised # "none" THEN ValueAtFinish(s, index, value, TRUE)
    ELSE ValueAtFinish([s EXCEPT !.remaining_size = reserved_remaining_size],
                       index, value, TRUE)

\* LoopEnd taking every drawn value for the end of its own loop
LoopEndOfValue(s, value) == value

\* The end of the loop the drawn value joins: the index holding the
\* complement of the value, or the value itself
LoopEnd(s, value) ==
    IF pm_index_of(s, Invert(value)) = None THEN value
    ELSE pm_index_of(s, Invert(value))[1]

\* ValueAtCyclicDrawn without the unreserve
ValueAtCyclicDrawnReserved(nv, index, not_loop_start, reserved_nodes, terminal_bit_number, reserved_remaining_size) ==
    IF nv.st.raised # "none" THEN ValueAtFinish(nv.st, index, nv.value, TRUE)
    ELSE ValueAtCyclicUnreserved(
             pm_save_index_value(nv.st, LoopEnd(nv.st, nv.value), not_loop_start),
             index, nv.value, reserved_remaining_size)

\* ValueAtCyclicDrawn that marks the loop end with the complement of the
\* index queried instead of the loop start
ValueAtCyclicDrawnMarkedByIndex(nv, index, not_loop_start, reserved_nodes, terminal_bit_number, reserved_remaining_size) ==
    IF nv.st.raised # "none" THEN ValueAtFinish(nv.st, index, nv.value, TRUE)
    ELSE ValueAtCyclicUnreserved(
             UnreserveLoop(pm_save_index_value(nv.st, LoopEnd(nv.st, nv.value),
                                               Invert(index)),
                           reserved_nodes, 1, terminal_bit_number),
             index, nv.value, reserved_remaining_size)

\* After the draw nv = [st, value]: join the loop end to the loop start with
\* the marker, then unreserve
ValueAtCyclicDrawn(nv, index, not_loop_start, reserved_nodes, terminal_bit_number, reserved_remaining_size) ==
    IF nv.st.raised # "none" THEN ValueAtFinish(nv.st, index, nv.value, TRUE)
    ELSE ValueAtCyclicUnreserved(
             UnreserveLoop(pm_save_index_value(nv.st, LoopEnd(nv.st, nv.value),
                                               not_loop_start),
                           reserved_nodes, 1, terminal_bit_number),
             index, nv.value, reserved_remaining_size)

\* ValueAtCyclicDraw that unreserves the loop start before the draw
ValueAtCyclicDrawUnreservedFirst(s, index, not_loop_start, reserved_nodes, terminal_bit_number, k) ==
    ValueAtCyclicDrawn(next_value(UnreserveLoop(s, reserved_nodes, 1, terminal_bit_number), k),
                       index, not_loop_start, <<>>, terminal_bit_number, s.remaining_size)

\* The drawing branch of the cyclic value_at (remaining size non-zero after
\* the reserve): draw, join the loop end to the loop start, unreserve
ValueAtCyclicDraw(s, index, not_loop_start, reserved_nodes, terminal_bit_number, k) ==
    ValueAtCyclicDrawn(next_value(s, k), index, not_loop_start, reserved_nodes,
                       terminal_bit_number, s.remaining_size)

\* ValueAtCyclicReserved that unreserves the loop start also when it closes
\* the loop
ValueAtCyclicReservedReleased(reserve, index, loop_start, not_loop_start, terminal_bit_number, k) ==
    IF reserve.st.remaining_size - 1 # 0
    THEN ValueAtCyclicDraw([reserve.st EXCEPT !.remaining_size = @ - 1], index,
                           not_loop_start, reserve.reserved_nodes, terminal_bit_number, k)
    ELSE ValueAtFinish(UnreserveLoop([reserve.st EXCEPT !.remaining_size = @ - 1],
                                     reserve.reserved_nodes, 1, terminal_bit_number),
                       index, loop_start, TRUE)

\* After the reserve = [st, reserved_nodes]: account for it, then draw or,
\* with nothing remaining, close the loop
ValueAtCyclicReserved(reserve, index, loop_start, not_loop_start, terminal_bit_number, k) ==
    IF reserve.st.remaining_size - 1 # 0
    THEN ValueAtCyclicDraw([reserve.st EXCEPT !.remaining_size = @ - 1], index,
                           not_loop_start, reserve.reserved_nodes, terminal_bit_number, k)
    ELSE ValueAtFinish([reserve.st EXCEPT !.remaining_size = @ - 1], index,
                       loop_start, TRUE)

\* ValueAtCyclicFrom that reserves the index queried instead of the start
\* of its loop
ValueAtCyclicFromIndexReserved(s, index, loop_start, not_loop_start, k) ==
    IF s.raised # "none" THEN ValueAtFinish(s, index, 0, TRUE)
    ELSE ValueAtCyclicReserved(
             ReserveLoop(s, <<>>, index, index % (TERMINAL_SIZE_BITMASK + 1)),
             index, loop_start, not_loop_start,
             index % (TERMINAL_SIZE_BITMASK + 1), k)

\* The cyclic value_at from the reserve on; s has the old end-of-loop entry
\* deleted
ValueAtCyclicFrom(s, index, loop_start, not_loop_start, k) ==
    IF s.raised # "none" THEN ValueAtFinish(s, index, 0, TRUE)
    ELSE ValueAtCyclicReserved(
             ReserveLoop(s, <<>>, loop_start, loop_start % (TERMINAL_SIZE_BITMASK + 1)),
             index, loop_start, not_loop_start,
             loop_start % (TERMINAL_SIZE_BITMASK + 1), k)

\* ValueAtCyclic that starts a new loop at index even when index is the end
\* of an existing loop
ValueAtCyclicNewLoop(s, index, stored, k) ==
    ValueAtCyclicFrom(s, index, index, Invert(index), k)

\* ValueAtCyclic that deletes the entry of an existing loop's end twice
ValueAtCyclicDeletedTwice(s, index, stored, k) ==
    IF stored = None
    THEN ValueAtCyclicFrom(s, index, index, Invert(index), k)
    ELSE ValueAtCyclicFrom(pm_delete_index_value(pm_delete_index_value(s, index, stored[1]),
                                                 index, stored[1]),
                           index, Invert(stored[1]), stored[1], k)

\* The randomized branch of the cyclic value_at; stored is the entry found
\* for index: None (index starts a new loop) or a negative value (index is
\* the end of an existing loop, whose entry is deleted)
ValueAtCyclic(s, index, stored, k) ==
    IF stored = None
    THEN ValueAtCyclicFrom(s, index, index, Invert(index), k)
    ELSE ValueAtCyclicFrom(pm_delete_index_value(s, index, stored[1]), index,
                           Invert(stored[1]), stored[1], k)

\* value_at accepting the index equal to the size
value_atInclusive(s, index, k) ==
    IF ~(0 <= index /\ index <= s.size)
    THEN [st |-> Raise(s, "IndexOutOfRange"), value |-> 0, randomized |-> FALSE]
    ELSE LET stored == pm_value_at(s, index)
         IN  IF ~s.cyclic
             THEN IF stored = None
                  THEN LET nv == next_value(s, k)
                       IN  ValueAtFinish(nv.st, index, nv.value, TRUE)
                  ELSE ValueAtFinish(s, index, stored[1], FALSE)
             ELSE IF stored = None \/ stored[1] < 0
                  THEN ValueAtCyclic(s, index, stored, k)
                  ELSE ValueAtFinish(s, index, stored[1], FALSE)

\* Shuffler.value_at(index) with the random draw k: [st, value, randomized]
value_at(s, index, k) ==
    IF ~(0 <= index /\ index < s.size)
    THEN [st |-> Raise(s, "IndexOutOfRange"), value |-> 0, randomized |-> FALSE]
    ELSE LET stored == pm_value_at(s, index)
         IN  IF ~s.cyclic
             THEN IF stored = None
                  THEN LET nv == next_value(s, k)
                       IN  ValueAtFinish(nv.st, index, nv.value, TRUE)
                  ELSE ValueAtFinish(s, index, stored[1], FALSE)
             ELSE IF stored = None \/ stored[1] < 0
                  THEN ValueAtCyclic(s, index, stored, k)
                  ELSE ValueAtFinish(s, index, stored[1], FALSE)

\* Shuffler.index_of
index_of(s, value) == pm_index_of(s, value)

\* index_of as a lookup that removes the entry it returns
index_of_pop(s, value) ==
    [st |-> IF value \in DOMAIN s.vi THEN [s EXCEPT !.vi = Remove(s.vi, value)] ELSE s,
     index |-> index_of(s, value)]

\* The call Shuffler.index_of(value): [st, index], the shuffler it leaves
\* and the index returned
index_of_call(s, value) == [st |-> s, index |-> index_of(s, value)]

(***************************************************************************)
(* Shuffler._build_root, __init__ and resize                               *)
(***************************************************************************)

Max(a, b) == IF a >= b THEN a ELSE b

\* StampLoop that gives the struck count to the new root only
StampLoopRootOnly(s, path, root_struck_count) ==
    save_node_state([s EXCEPT !.mem[path].struck_count = root_struck_count], path)

RECURSIVE StampLoop(_, _, _)
\* The while loop of _build_root: the old root's struck count is copied
\* down the right from the new root until a right node with a non-zero
\* struck count (the old root, restored from the persistence manager) is
\* met.  The source takes the update node never to be terminal; a walk that
\* would ask a terminal for its right node ends here as "RightOfTerminal".
StampLoop(s, path, root_struck_count) ==
    LET s1 == save_node_state([s EXCEPT !.mem[path].struck_count = root_struck_count], path)
    IN  IF NodeTerminal(s1, path) THEN Raise(s1, "RightOfTerminal")
        ELSE LET s2 == WithRight(s1, path)
             IN  IF s2.mem[Append(path, 0)].struck_count # 0 THEN s2
                 ELSE StampLoop(s2, Append(path, 0), root_struck_count)

\* Shuffler._build_root; resizing is "self._root is not None"
build_root(s, resizing) ==
    LET size_bit_length == Max(bit_length(s.size - 1), TERMINAL_SIZE_BIT_COUNT)
        new_key == all_bits(size_bit_length + 1)
        new_root == NewNode(s, new_key, ~resizing)
        rebuilt == [s EXCEPT !.root_key = new_key,
                             !.root_bit = size_bit_length - 1,
                             !.mem = (<<>> :> new_root)]
        s1 == IF ~resizing \/ size_bit_length # s.root_bit + 1
              THEN IF resizing /\ s.mem[<<>>].struck_count # 0
                   THEN StampLoop(rebuilt, <<>>, s.mem[<<>>].struck_count)
                   ELSE rebuilt
              ELSE s
    IN  IF s1.raised # "none" THEN s1
        ELSE [s1 EXCEPT !.remaining_size = s1.size - s1.mem[<<>>].struck_count]

\* __init__ whose root is not restored from the persistence manager
ShufflerUnrestored(size_, cyclic_, nodes_, iv_, vi_) ==
    build_root([size |-> size_, cyclic |-> cyclic_, remaining_size |-> 0,
                root_key |-> 0, root_bit |-> 0, mem |-> (<<>> :> NodeState(0, WORD_ZERO)),
                nodes |-> nodes_, iv |-> iv_, vi |-> vi_,
                log |-> <<>>, raised |-> "none"], TRUE)

\* Shuffler.__init__(size, cyclic, persistence_manager) over the stores
\* nodes, iv, vi of the persistence manager
Shuffler(size_, cyclic_, nodes_, iv_, vi_) ==
    build_root([size |-> size_, cyclic |-> cyclic_, remaining_size |-> 0,
                root_key |-> 0, root_bit |-> 0, mem |-> Empty,
                nodes |-> nodes_, iv |-> iv_, vi |-> vi_,
                log |-> <<>>, raised |-> "none"], FALSE)

\* resize that sets the size without rebuilding the root
resizeUnbuilt(s, new_size) ==
    IF new_size # s.size
    THEN IF new_size < s.size /\ s.mem[<<>>].struck_count # 0
         THEN Raise(s, "CannotShrink")
         ELSE IF s.cyclic /\ s.remaining_size = 0
              THEN Raise(s, "CannotResizeCompleted")
              ELSE [s EXCEPT !.size = new_size]
    ELSE s

\* resize without the refusal to shrink a partially used shuffler
resizeShrinking(s, new_size) ==
    IF new_size # s.size
    THEN IF s.cyclic /\ s.remaining_size = 0
         THEN Raise(s, "CannotResizeCompleted")
         ELSE build_root([s EXCEPT !.size = new_size], TRUE)
    ELSE s

\* resize without the refusal to resize a completed cyclic shuffler
resizeCompleted(s, new_size) ==
    IF new_size # s.size
    THEN IF new_size < s.size /\ s.mem[<<>>].struck_count # 0
         THEN Raise(s, "CannotShrink")
         ELSE build_root([s EXCEPT !.size = new_size], TRUE)
    ELSE s

\* Shuffler.resize
resize(s, new_size) ==
    IF new_size # s.size
    THEN IF new_size < s.size /\ s.mem[<<>>].struck_count # 0
         THEN Raise(s, "CannotShrink")
         ELSE IF s.cyclic /\ s.remaining_size = 0
              THEN Raise(s, "CannotResizeCompleted")
              ELSE build_root([s EXCEPT !.size = new_size], TRUE)
    ELSE s

(***************************************************************************)
(* validate_state.  A validation is [st, keys]: the shuffler (validation   *)
(* constructs the right and left nodes of every node with a non-zero       *)
(* struck count) and the keys met so far.                                  *)
(***************************************************************************)

\* Size of the right node of a node with bit number bit_number and size size_
RightSize(size_, bit_number) ==
    IF is_set(size_, bit_number + 1) THEN bit(bit_number)
    ELSE IF is_set(size_, bit_number) THEN bit(bit_number)
    ELSE size_

\* LeftSize without the even split of a full node
LeftSizeUneven(size_, bit_number) ==
    IF is_set(size_, bit_number) THEN clear(size_, bit_number) ELSE 0

\* Size of the left node; 0 if the left node will not be created
LeftSize(size_, bit_number) ==
    IF is_set(size_, bit_number + 1) THEN bit(bit_number)
    ELSE IF is_set(size_, bit_number) THEN clear(size_, bit_number)
    ELSE 0

\* The struck count of the child at path if it has been constructed, else 0
ChildStruckCount(s, path) ==
    IF path \in DOMAIN s.mem THEN s.mem[path].struck_count ELSE 0

\* The persistence checks of _Node.validate_state: "none" or the exception
ValidatePersisted(s, path) ==
    LET node == s.mem[path]
        node_state == pm_restore_node_state(s, NodeKey(s, path))
    IN  IF node.struck_count < 0 THEN "NegativeStruckCount"
        ELSE IF node.struck_count = 0
        THEN IF node_state # None THEN "UnexpectedPersistence" ELSE "none"
        ELSE IF node_state = None THEN "MissingPersistence"
        ELSE IF node.struck_count # node_state[1].struck_count
                \/ node.struck_bitmap # node_state[1].struck_bitmap
        THEN "PersistedStateMismatch"
        ELSE "none"

\* The terminal checks of _Node.validate_state
ValidateTerminal(s, path) ==
    IF Append(path, 0) \in DOMAIN s.mem \/ Append(path, 1) \in DOMAIN s.mem
    THEN "UnexpectedChildrenAtTerminal"
    ELSE IF s.mem[path].struck_count # WordBitCount(s.mem[path].struck_bitmap)
    THEN "StruckCountBitCountMismatch"
    ELSE "none"

\* The non-terminal checks of _Node.validate_state, made on the node after
\* its right and left nodes were fetched; had_children tells whether a child
\* had been constructed before the fetch
ValidateNonTerminal(s, path, left_size, cyclic_, had_children) ==
    IF s.mem[path].struck_count = 0 /\ ~cyclic_ /\ had_children
    THEN "UnexpectedChildrenAtNonPersisted"
    ELSE IF left_size = 0
            /\ (Append(path, 1) \in DOMAIN s.mem
                \/ pm_restore_node_state(s, NodeKey(s, path) - 1) # None)
    THEN "UnexpectedLeft"
    ELSE IF s.mem[path].struck_count #
            ChildStruckCount(s, Append(path, 0))
            + (IF s.mem[path].struck_count = 0 \/ left_size # 0
               THEN ChildStruckCount(s, Append(path, 1)) ELSE 0)
    THEN "StruckCountSumMismatch"
    ELSE IF s.mem[path].struck_bitmap # WORD_ZERO THEN "BitmapAtNonTerminal"
    ELSE "none"

\* right = self.right, left = self.left if left_size != 0, for a node with
\* a non-zero struck count; nothing is constructed for a zero struck count
ValidateFetch(s, path, left_size) ==
    IF s.mem[path].struck_count = 0 THEN s
    ELSE IF left_size # 0 THEN WithLeft(WithRight(s, path), path)
    ELSE WithRight(s, path)

RECURSIVE NodeValidate(_, _, _)
RECURSIVE NodeValidateBelow(_, _, _, _)
RECURSIVE NodeValidateLeft(_, _, _)

\* _Node.validate_state(keys, size, cyclic) of the node at path, a node that
\* has been constructed
NodeValidate(v, path, size_) ==
    IF v.st.raised # "none" THEN v
    ELSE IF ValidatePersisted(v.st, path) # "none"
    THEN [st |-> Raise(v.st, ValidatePersisted(v.st, path)),
          keys |-> Append(v.keys, NodeKey(v.st, path))]
    ELSE IF NodeTerminal(v.st, path)
    THEN [st |-> IF ValidateTerminal(v.st, path) # "none"
                 THEN Raise(v.st, ValidateTerminal(v.st, path)) ELSE v.st,
          keys |-> Append(v.keys, NodeKey(v.st, path))]
    ELSE NodeValidateBelow(
             [st |-> ValidateFetch(v.st, path, LeftSize(size_, NodeBitNumber(v.st, path))),
              keys |-> Append(v.keys, NodeKey(v.st, path))],
             path, size_,
             Append(path, 0) \in DOMAIN v.st.mem \/ Append(path, 1) \in DOMAIN v.st.mem)

\* The non-terminal part of _Node.validate_state once right and left are
\* fetched: the checks, then the right node and the left node
NodeValidateBelow(v, path, size_, had_children) ==
    IF ValidateNonTerminal(v.st, path, LeftSize(size_, NodeBitNumber(v.st, path)),
                           v.st.cyclic, had_children) # "none"
    THEN [v EXCEPT !.st = Raise(v.st,
              ValidateNonTerminal(v.st, path, LeftSize(size_, NodeBitNumber(v.st, path)),
                                  v.st.cyclic, had_children))]
    ELSE NodeValidateLeft(
             IF Append(path, 0) \in DOMAIN v.st.mem
             THEN NodeValidate(v, Append(path, 0), RightSize(size_, NodeBitNumber(v.st, path)))
             ELSE v,
             path, size_)

\* left.validate_state if left is not None: the left node is validated if
\* the struck count is zero and it exists, or non-zero and left_size != 0
NodeValidateLeft(v, path, size_) ==
    IF v.st.raised = "none" /\ Append(path, 1) \in DOMAIN v.st.mem
       /\ (v.st.mem[path].struck_count = 0 \/ LeftSize(size_, NodeBitNumber(v.st, path)) # 0)
    THEN NodeValidate(v, Append(path, 1), LeftSize(size_, NodeBitNumber(v.st, path)))
    ELSE v

\* The elements of a sequence
Range(q) == {q[j] : j \in DOMAIN q}

\* Largest element of a non-empty set of integers
Maximum(S) == CHOOSE m \in S : \A y \in S : y <= m

\* Smallest element of a non-empty set of integers
Minimum(S) == CHOOSE m \in S : \A y \in S : m <= y

\* The key checks with the minimum key bound taken from the terminal size
\* instead of the terminal size bitmask
ValidateKeysBySize(s, keys) ==
    IF Cardinality(Range(keys)) # Len(keys) THEN "DuplicateKey"
    ELSE IF Minimum(Range(keys)) < 2 * TERMINAL_SIZE + 1 THEN "InvalidMinimumKey"
    ELSE IF Maximum(Range(keys)) # Minimum(Range(keys))
            /\ Maximum(Range(keys)) >= 2 ^ (bit_length(s.size - 1) + 1)
    THEN "InvalidMaximumKey"
    ELSE "none"

\* The key checks of Shuffler.validate_state over the keys collected
ValidateKeys(s, keys) ==
    IF Cardinality(Range(keys)) # Len(keys) THEN "DuplicateKey"
    ELSE IF Minimum(Range(keys)) < 2 * TERMINAL_SIZE_BITMASK + 1 THEN "InvalidMinimumKey"
    ELSE IF Maximum(Range(keys)) # Minimum(Range(keys))
            /\ Maximum(Range(keys)) >= 2 ^ (bit_length(s.size - 1) + 1)
    THEN "InvalidMaximumKey"
    ELSE "none"

\* Shuffler.validate_state after the tree walk
ValidateWalked(v) ==
    IF v.st.raised # "none" THEN v.st
    ELSE IF ValidateKeys(v.st, v.keys) # "none" THEN Raise(v.st, ValidateKeys(v.st, v.keys))
    ELSE v.st

\* Shuffler.validate_state
validate_state(s) ==
    IF s.remaining_size # s.size - s.mem[<<>>].struck_count
    THEN Raise(s, "RemainingSizeMismatch")
    ELSE ValidateWalked(NodeValidate([st |-> s, keys |-> <<>>], <<>>, s.size))

(***************************************************************************)
(* Shuffler.Iterator                                                       *)
(***************************************************************************)

\* __next__ moving to the index after the one just read in both regimes
IteratorAdvanceByOne(s, r, next_index) ==
    [st |-> r.st, value |-> r.value,
     next_index |-> IF r.st.raised # "none" THEN next_index ELSE next_index + 1]

\* The end of Iterator.__next__ after r = value_at(next_index): the next
\* index is the following one (non-cyclic), the value (cyclic), or the size
\* once the cycle is back at 0
IteratorAdvance(s, r, next_index) ==
    [st |-> r.st, value |-> r.value,
     next_index |-> IF r.st.raised # "none" THEN next_index
                    ELSE IF ~s.cyclic THEN next_index + 1
                    ELSE IF r.value # 0 THEN r.value
                    ELSE s.size]

\* Shuffler.Iterator.__next__ with the random draw k: [st, value, next_index]
IteratorNext(s, next_index, k) ==
    IF next_index = s.size
    THEN [st |-> Raise(s, "StopIteration"), value |-> 0, next_index |-> next_index]
    ELSE IteratorAdvance(s, value_at(s, next_index, k), next_index)

(***************************************************************************)
(* State, inputs and actions                                               *)
(***************************************************************************)

VARIABLES
    size,               \* Shuffler._size
    cyclic,             \* Shuffler._cyclic
    remaining_size,     \* Shuffler._remaining_size
    root_key,           \* Shuffler._root.key
    root_bit,           \* Shuffler._root.bit_number
    mem,                \* the nodes constructed below Shuffler._root
    node_state_store,   \* MemoryPersistenceManager._node_state_store
    index_value_store,  \* MemoryPersistenceManager._index_value_store
    value_index_store,  \* MemoryPersistenceManager._value_index_store
    raised,             \* exception raised by the last call, or "none"
    returned,           \* index -> the value value_at first returned for it
    resizes,            \* number of resize calls that changed the size
    grown_full,         \* some resize grew a shuffler with nothing remaining
    iterator,           \* Shuffler.Iterator._next_index as <<n>>; None without an iterator
    yielded,            \* the values the iterator has returned, in order
    interrupted         \* the value_at call that was interrupted as <<[index, draw, writes, queried]>>; None without one

vars == <<size, cyclic, remaining_size, root_key, root_bit, mem, node_state_store,
          index_value_store, value_index_store, raised, returned, resizes, grown_full,
          iterator, yielded, interrupted>>

\* Sizes a shuffler is constructed with or resized to: a single terminal
\* (1, 3), two terminals under a root (66), and three levels (130)
Sizes == {1, 3, 66, 130}

\* Indexes within MaxFree of the size are queried in any order with any
\* draw; the indexes below are queried in increasing order with draw 0
MaxFree == 3

\* Largest size resize is called with from any state
MaxGrownAnywhere == 66

\* Bound on the number of resize calls that change the size
MaxResizes == 1

\* The shuffler and its persistence manager at the start of a call
Current ==
    [size |-> size, cyclic |-> cyclic, remaining_size |-> remaining_size,
     root_key |-> root_key, root_bit |-> root_bit, mem |-> mem,
     nodes |-> node_state_store, iv |-> index_value_store, vi |-> value_index_store,
     log |-> <<>>, raised |-> "none"]

\* The state a call leaves
Becomes(s) ==
    /\ size' = s.size
    /\ cyclic' = s.cyclic
    /\ remaining_size' = s.remaining_size
    /\ root_key' = s.root_key
    /\ root_bit' = s.root_bit
    /\ mem' = s.mem
    /\ node_state_store' = s.nodes
    /\ index_value_store' = s.iv
    /\ value_index_store' = s.vi
    /\ raised' = s.raised

\* Index i holds a final value (in the cyclic regime a negative value marks
\* the end of an open loop)
Final(s, i) == i \in DOMAIN s.iv /\ s.iv[i] >= 0

\* First index of the free window
FreeFrom(s) == Max(0, s.size - MaxFree)

\* Indexes below the free window that hold no final value yet
Pending(s) == {i \in 0 .. (FreeFrom(s) - 1) : ~Final(s, i)}

\* The indexes value_at is called with
IndexInputs(s) ==
    IF Pending(s) # {} THEN {Minimum(Pending(s))}
    ELSE (FreeFrom(s) .. (s.size - 1)) \cup {-1, 0, s.size}

\* The draws randrange can make in value_at(i): one of the remaining
\* entries (one fewer in the cyclic regime, after the reserve)
DrawInputs(s, i) ==
    IF Pending(s) # {} \/ i \notin 0 .. (s.size - 1) \/ Final(s, i) THEN {0}
    ELSE 0 .. Max(0, s.remaining_size - (IF s.cyclic THEN 2 ELSE 1))

\* The sizes resize is called with: any size up to MaxGrownAnywhere, and a
\* larger one from a shuffler whose free window holds no final value yet
ResizeInputs(s) ==
    {n \in Sizes : \/ n <= MaxGrownAnywhere
                   \/ \A i \in FreeFrom(s) .. (s.size - 1) : ~Final(s, i)}

\* The warm-up below the free window is over: the other operations are
\* called from then on
WarmedUp == Pending(Current) = {}

Init ==
    \E size_ \in Sizes, cyclic_ \in BOOLEAN :
        LET s == Shuffler(size_, cyclic_, Empty, Empty, Empty)
        IN  /\ size = s.size
            /\ cyclic = s.cyclic
            /\ remaining_size = s.remaining_size
            /\ root_key = s.root_key
            /\ root_bit = s.root_bit
            /\ mem = s.mem
            /\ node_state_store = s.nodes
            /\ index_value_store = s.iv
            /\ value_index_store = s.vi
            /\ raised = s.raised
            /\ returned = Empty
            /\ resizes = 0
            /\ grown_full = FALSE
            /\ iterator = None
            /\ yielded = <<>>
            /\ interrupted = None

\* value_at(i) with draw k
ValueAt ==
    \E i \in IndexInputs(Current) : \E k \in DrawInputs(Current, i) :
        LET r == value_at(Current, i, k)
        IN  /\ Becomes(r.st)
            /\ returned' = IF r.st.raised = "none" /\ i \notin DOMAIN returned
                           THEN Put(returned, i, r.value)
                           ELSE returned
            /\ UNCHANGED <<resizes, grown_full, iterator, yielded, interrupted>>

\* resize(new_size)
Resize ==
    \E new_size \in ResizeInputs(Current) :
        /\ WarmedUp
        /\ resizes < MaxResizes
        /\ Becomes(resize(Current, new_size))
        /\ resizes' = IF size' # size THEN resizes + 1 ELSE resizes
        /\ grown_full' = (grown_full \/ (size' > size /\ remaining_size = 0))
        /\ UNCHANGED <<returned, iterator, yielded, interrupted>>

\* A new Shuffler of the same size and regime over the same persistence
\* manager; the nodes of the old one are dropped
Reconstruct ==
    /\ WarmedUp
    /\ Becomes(Shuffler(size, cyclic, node_state_store, index_value_store,
                        value_index_store))
    /\ UNCHANGED <<returned, resizes, grown_full, iterator, yielded, interrupted>>

\* validate_state()
Validate ==
    /\ WarmedUp
    /\ Becomes(validate_state(Current))
    /\ UNCHANGED <<returned, resizes, grown_full, iterator, yielded, interrupted>>

\* The values index_of is called with
ValueInputs(s) == (FreeFrom(s) .. (s.size - 1)) \cup {-1, 0, s.size}

\* index_of(value)
IndexOf ==
    \E v \in ValueInputs(Current) :
        /\ Becomes(index_of_call(Current, v).st)
        /\ UNCHANGED <<returned, resizes, grown_full, iterator, yielded, interrupted>>

Next == ValueAt \/ Resize \/ Reconstruct \/ Validate \/ IndexOf

Spec == Init /\ [][Next]_vars

\* The draws made in the iterator's value_at(i): 0 while more than MaxFree
\* entries remain, any draw after that
IteratorDrawInputs(s, i) ==
    IF i \notin 0 .. (s.size - 1) \/ Final(s, i) \/ s.remaining_size > MaxFree THEN {0}
    ELSE 0 .. Max(0, s.remaining_size - (IF s.cyclic THEN 2 ELSE 1))

\* value_at calls made before the iteration starts
ValueAtBefore == iterator = None /\ ValueAt

\* Shuffler.__iter__, on a new shuffler or after the warm-up
Iter ==
    /\ iterator = None
    /\ returned = Empty \/ WarmedUp
    /\ iterator' = <<0>>
    /\ UNCHANGED <<size, cyclic, remaining_size, root_key, root_bit, mem, node_state_store,
                   index_value_store, value_index_store, raised, returned, resizes,
                   grown_full, yielded, interrupted>>

\* next(iterator)
IterateNext ==
    /\ iterator # None
    /\ \E k \in IteratorDrawInputs(Current, iterator[1]) :
        /\ Becomes(IteratorNext(Current, iterator[1], k).st)
        /\ iterator' = <<IteratorNext(Current, iterator[1], k).next_index>>
        /\ yielded' = IF raised' = "none"
                      THEN Append(yielded, IteratorNext(Current, iterator[1], k).value)
                      ELSE yielded
        /\ returned' = IF raised' = "none" /\ iterator[1] \notin DOMAIN returned
                       THEN Put(returned, iterator[1],
                                IteratorNext(Current, iterator[1], k).value)
                       ELSE returned
        /\ UNCHANGED <<resizes, grown_full, interrupted>>

NextIter == ValueAtBefore \/ Iter \/ IterateNext

\* A shuffler used through value_at and then iterated over
SpecIter == Init /\ [][NextIter]_vars

(***************************************************************************)
(* A value_at call interrupted between two persistence writes: the writes  *)
(* made so far are in the persistence manager, the shuffler object is lost *)
(* and a new one is constructed over the same persistence manager.         *)
(***************************************************************************)

\* One recorded write made on the persistence manager of s
ApplyWrite(s, w) ==
    CASE w.op = "save_node_state" -> pm_save_node_state(s, w.k, w.v)
      [] w.op = "delete_node_state" -> pm_delete_node_state(s, w.k)
      [] w.op = "save_index_value" -> pm_save_index_value(s, w.k, w.v)
      [] w.op = "delete_index_value" -> pm_delete_index_value(s, w.k, w.v)

RECURSIVE ApplyWrites(_, _, _)
\* The first n writes of log made on the persistence manager of s
ApplyWrites(s, log, n) ==
    IF n = 0 THEN s ELSE ApplyWrite(ApplyWrites(s, log, n - 1), log[n])

\* The persistence manager of s after the first n writes of log, read by a
\* new Shuffler of the same size and regime
ShufflerAfterWrites(s, log, n) ==
    Shuffler(s.size, s.cyclic, ApplyWrites(s, log, n).nodes,
             ApplyWrites(s, log, n).iv, ApplyWrites(s, log, n).vi)

\* The indexes a value_at call that generates a value is made with
GeneratingInputs(s) == {i \in IndexInputs(s) \cap (0 .. (s.size - 1)) : ~Final(s, i)}

\* value_at(i) with draw k interrupted after n of its writes, once, after
\* the warm-up; then a new Shuffler is constructed
Interrupt ==
    /\ interrupted = None
    /\ WarmedUp
    /\ \E i \in GeneratingInputs(Current) : \E k \in DrawInputs(Current, i) :
        \E n \in 0 .. Len(value_at(Current, i, k).st.log) :
            /\ Becomes(ShufflerAfterWrites(Current, value_at(Current, i, k).st.log, n))
            /\ interrupted' = <<[index |-> i, draw |-> k, writes |-> n,
                                 queried |-> Cardinality(DOMAIN returned)]>>
    /\ UNCHANGED <<returned, resizes, grown_full, iterator, yielded>>

\* value_at calls as long as no call has failed: the caller stops at the
\* first exception other than the one for an index out of range
ValueAtRunning == raised \in {"none", "IndexOutOfRange"} /\ ValueAt

NextInterrupt == ValueAtRunning \/ Interrupt

\* A shuffler used through value_at, one call of which is interrupted
SpecInterrupt == Init /\ [][NextInterrupt]_vars

(***************************************************************************)
(* The search of _next_value in one terminal node: a non-cyclic shuffler   *)
(* of a single terminal in which any of a set of entries has been struck,  *)
(* then struck further with the lowest, the middle and the highest draw.   *)
(***************************************************************************)

\* The sizes of the single-terminal shufflers searched
SearchSizes == {40, 64}

\* The entries struck beforehand, any subset of them: the first and last
\* bits of the 16-bit quarters of the bitmap
BitPositions == {0, 1, 15, 16, 31, 32, 47, 48, 62, 63}

RECURSIVE StrikeAll(_, _, _)
\* The shuffler s after value_at(i), value_at(i + 1), ... with the draws
\* that strike the entries of S in increasing order
StrikeAll(s, S, i) ==
    IF S = {} THEN s
    ELSE StrikeAll(value_at(s, i, Minimum(S) - i).st, S \ {Minimum(S)}, i + 1)

\* The draws made on a terminal: the lowest, the middle and the highest
SearchDraws(s) == {0, s.remaining_size \div 2, s.remaining_size - 1}

InitSearch ==
    \E size_ \in SearchSizes : \E S \in SUBSET (BitPositions \cap (0 .. (size_ - 1))) :
        LET s == StrikeAll(Shuffler(size_, FALSE, Empty, Empty, Empty), S, 0)
        IN  /\ size = s.size
            /\ cyclic = s.cyclic
            /\ remaining_size = s.remaining_size
            /\ root_key = s.root_key
            /\ root_bit = s.root_bit
            /\ mem = s.mem
            /\ node_state_store = s.nodes
            /\ index_value_store = s.iv
            /\ value_index_store = s.vi
            /\ raised = s.raised
            /\ returned = s.iv
            /\ resizes = 0
            /\ grown_full = FALSE
            /\ iterator = None
            /\ yielded = <<>>
            /\ interrupted = None

\* value_at of the next index with one of the search draws, as long as
\* only entries of BitPositions are struck, in increasing order
StrikeTerminal ==
    /\ remaining_size > 0
    /\ \A i \in DOMAIN returned :
        /\ returned[i] \in BitPositions
        /\ i > 0 => returned[i - 1] < returned[i]
    /\ \E k \in SearchDraws(Current) :
        LET r == value_at(Current, Cardinality(DOMAIN returned), k)
        IN  /\ Becomes(r.st)
            /\ returned' = IF r.st.raised = "none"
                           THEN Put(returned, Cardinality(DOMAIN returned), r.value)
                           ELSE returned
    /\ UNCHANGED <<resizes, grown_full, iterator, yielded, interrupted>>

NextSearch == StrikeTerminal

\* A single terminal struck at chosen entries and searched
SpecSearch == InitSearch /\ [][NextSearch]_vars


(***************************************************************************)
(* Properties                                                              *)
(***************************************************************************)

\* The indexes value_at has returned a value for, and the values returned
Queried == DOMAIN returned

ReturnedValues == {returned[i] : i \in Queried}

\* value_at has returned a value for every index of the current size
AllQueried == Queried = 0 .. (size - 1)

\* No call has raised anything but the documented rejections
NoFailure == raised \in {"none", "IndexOutOfRange", "CannotShrink", "CannotResizeCompleted"}

\* C1: in the non-cyclic regime, once value_at has been called for every
\* index of [0, N), the N values returned are exactly 0 .. N-1, each once
\* (N indexes mapped onto N values), so index -> value is a bijection.
C1_Bijection == (~cyclic /\ AllQueried) => ReturnedValues = 0 .. (size - 1)

\* A two-terminal shuffler fully queried, with a value drawn across terminals
C1_Witness ==
    /\ ~cyclic /\ size = 66 /\ AllQueried /\ raised = "none"
    /\ returned[65] = 63

RECURSIVE Walk(_, _, _)
\* The indexes visited by iterating value_at n times from index i
Walk(s, i, n) ==
    IF n = 0 THEN <<>> ELSE <<i>> \o Walk(s, value_at(s, i, 0).value, n - 1)

\* Iterating value_at from 0 visits every index once and is back at 0 on
\* the size-th step
SingleCycle(s) ==
    /\ Range(Walk(s, 0, s.size)) = 0 .. (s.size - 1)
    /\ value_at(s, Walk(s, 0, s.size)[s.size], 0).value = 0

\* C2: in the cyclic regime, once every index holds its final value, the
\* permutation is a single cycle of length N: iterating value_at from index
\* 0 visits every index exactly once and returns to 0 on the N-th step,
\* whatever the order the indexes were first queried in.
C2_SingleCycle == (cyclic /\ AllQueried) => SingleCycle(Current)

\* A completed cyclic shuffler of two terminals whose last three indexes
\* were queried out of order into a cycle that is not the successor cycle
C2_Witness ==
    /\ cyclic /\ size = 66 /\ AllQueried /\ remaining_size = 0
    /\ returned[63] = 65 /\ returned[65] = 64 /\ returned[64] = 0

\* C3: once value_at(i) has returned v, every later value_at(i) returns the
\* same v without generating anything, in every state reached afterwards,
\* through further value_at calls, resizes and reconstructions.
C3_Stable ==
    \A i \in Queried :
        /\ value_at(Current, i, 0).st.raised = "none"
        /\ value_at(Current, i, 0).value = returned[i]
        /\ ~value_at(Current, i, 0).randomized

\* Values returned before a growth across the terminal size, read again
\* after the tree was rebuilt from the persistence manager
C3_Witness ==
    /\ size = 66 /\ resizes = 1 /\ raised = "none"
    /\ DOMAIN mem = {<<>>}
    /\ 0 \in Queried /\ returned[0] = 2
    /\ 65 \in Queried

\* C4: in the non-cyclic regime every value returned lies in [0, N) for the
\* current size N, no value is returned for two indexes, and the bounds
\* assertion that ends value_at never fails.
C4_InRangeDistinct ==
    ~cyclic =>
        /\ \A i \in Queried : 0 <= returned[i] /\ returned[i] < size
        /\ \A i, j \in Queried : returned[i] = returned[j] => i = j
        /\ raised # "AssertionError"

\* A partly consumed three-level shuffler with values drawn out of order
C4_Witness ==
    /\ ~cyclic /\ size = 130 /\ raised = "none"
    /\ Queried = 0 .. 128
    /\ returned[127] = 129 /\ returned[128] = 127

\* C5: index_of inverts value_at in both regimes: once value_at(i) has
\* returned v, index_of(v) is i.
C5_Inverse == \A i \in Queried : index_of(Current, returned[i]) = <<i>>

\* A cyclic shuffler in which a loop was joined to another (the marker of
\* the joined loop end was replaced) and final values are stored
C5_Witness ==
    /\ cyclic /\ size = 3 /\ raised = "none"
    /\ Queried = {0, 1} /\ returned[0] = 2 /\ returned[1] = 0
    /\ index_of(Current, 0) = <<1>>


\* C6: in the cyclic regime with N > 1 no index is returned as its own
\* value: value_at(i) # i for every index i.
C6_NoSelfLoop == (cyclic /\ size > 1) => \A i \in Queried : returned[i] # i

\* A completed cyclic shuffler of three entries
C6_Witness ==
    /\ cyclic /\ size = 3 /\ AllQueried /\ raised = "none"
    /\ returned[0] = 2 /\ returned[2] = 1 /\ returned[1] = 0

\* The shuffler constructed anew over the persistence manager, with the
\* same size and regime
Reconstructed ==
    Shuffler(size, cyclic, node_state_store, index_value_store, value_index_store)

\* The indexes without a value that value_at may be called with next
NextIndexes(s) == (IndexInputs(s) \cap (0 .. (s.size - 1))) \ Queried

\* C7: a shuffler constructed anew with the same size and regime over the
\* persistence manager of a partly consumed one continues it: it has the
\* same number of entries remaining, it returns every value returned
\* before without generating, and any value it generates next is in range
\* and differs from every value returned before, so the permutation
\* completes without a duplicate.
C7_RoundTrip ==
    /\ Reconstructed.raised = "none"
    /\ Reconstructed.remaining_size = remaining_size
    /\ \A i \in Queried :
        /\ value_at(Reconstructed, i, 0).value = returned[i]
        /\ ~value_at(Reconstructed, i, 0).randomized
    /\ \A i \in NextIndexes(Reconstructed) : \A k \in DrawInputs(Reconstructed, i) :
        /\ value_at(Reconstructed, i, k).st.raised = "none"
        /\ value_at(Reconstructed, i, k).randomized
        /\ value_at(Reconstructed, i, k).value \in (0 .. (size - 1)) \ ReturnedValues

\* A partly consumed cyclic shuffler of three levels just constructed anew
\* (only its root is in memory) over a store holding a loop-end marker
C7_Witness ==
    /\ cyclic /\ size = 130 /\ raised = "none"
    /\ DOMAIN mem = {<<>>}
    /\ Cardinality(DOMAIN node_state_store) >= 4
    /\ Queried = 0 .. 127
    /\ \E i \in DOMAIN index_value_store : index_value_store[i] < 0

\* C8: in the non-cyclic regime, after a resize every pair generated before
\* is still returned by value_at and index_of, and every value returned
\* lies in [0, N') for the new size N' and differs from every other value
\* returned, also when all N entries had been consumed before the growth;
\* no call fails.
C8_GrowthKeepsPairs ==
    (~cyclic /\ resizes >= 1) =>
        /\ NoFailure
        /\ \A i \in Queried :
            /\ value_at(Current, i, 0).value = returned[i]
            /\ index_of(Current, returned[i]) = <<i>>
            /\ returned[i] \in 0 .. (size - 1)
        /\ Cardinality(ReturnedValues) = Cardinality(Queried)

\* A shuffler grown across the terminal size after all its entries were
\* consumed, then consumed again to the end
C8_Witness ==
    /\ ~cyclic /\ grown_full /\ size = 66 /\ AllQueried /\ raised = "none"
    /\ returned[0] = 2 /\ returned[63] = 65

\* C9: in the cyclic regime, a shuffler that was resized while partly
\* consumed and is then consumed to the end, also when constructed anew
\* over its persistence manager, holds a single cycle over the final size.
C9_GrownSingleCycle ==
    (cyclic /\ resizes >= 1 /\ AllQueried) =>
        /\ SingleCycle(Current)
        /\ SingleCycle(Reconstructed)

\* A cyclic shuffler whose index 0 was given the value 2 among three
\* entries, grown to two terminals and consumed to the end
C9_Witness ==
    /\ cyclic /\ resizes = 1 /\ size = 66 /\ AllQueried /\ remaining_size = 0
    /\ returned[0] = 2 /\ returned[63] = 65

\* Every node in memory has the struck count of its kind: a terminal the
\* number of bits set in its bitmap, a non-terminal the sum of its right
\* and left nodes' struck counts
TreeCounts(s) ==
    \A path \in DOMAIN s.mem :
        IF NodeTerminal(s, path)
        THEN s.mem[path].struck_count = WordBitCount(s.mem[path].struck_bitmap)
        ELSE s.mem[path].struck_count =
                 ChildStruckCount(s, Append(path, 0)) + ChildStruckCount(s, Append(path, 1))

\* C10: after every completed value_at, resize or reconstruction, every
\* non-terminal node's struck count is the sum of its children's and every
\* terminal's is the population count of its bitmap, so validate_state
\* raises no error.
C10_TreeInvariants ==
    /\ validate_state(Current).raised = "none"
    /\ TreeCounts(validate_state(Current))

\* A grown, partly consumed cyclic shuffler of three levels whose validation
\* walks five nodes or more
C10_Witness ==
    /\ cyclic /\ size = 130 /\ resizes = 1 /\ raised = "none"
    /\ ~AllQueried /\ 128 \in Queried
    /\ Cardinality(DOMAIN validate_state(Current).mem) >= 5


\* The node at path of s is persisted exactly when its struck count is
\* positive, and then with its count and bitmap
PersistedAsStruck(s, path) ==
    IF s.mem[path].struck_count > 0
    THEN pm_restore_node_state(s, NodeKey(s, path))
             = <<NodeState(s.mem[path].struck_count, s.mem[path].struck_bitmap)>>
    ELSE /\ s.mem[path].struck_count = 0
         /\ pm_restore_node_state(s, NodeKey(s, path)) = None

\* C11: after every completed operation a node's state is in the
\* persistence manager if and only if its struck count is greater than 0,
\* and then the persisted count and bitmap are the node's; this for every
\* node in memory, for every node the validation walk constructs, and no
\* state is persisted with a zero count.
C11_PersistedIffStruck ==
    /\ \A path \in DOMAIN mem : PersistedAsStruck(Current, path)
    /\ \A path \in DOMAIN validate_state(Current).mem :
           PersistedAsStruck(validate_state(Current), path)
    /\ \A key \in DOMAIN node_state_store : node_state_store[key].struck_count > 0

\* A cyclic shuffler of two terminals whose left terminal was reserved for a
\* loop starting at 64 and unreserved back to zero: in memory, not persisted
C11_Witness ==
    /\ cyclic /\ size = 66 /\ raised = "none"
    /\ 64 \in Queried /\ returned[64] = 0
    /\ <<1>> \in DOMAIN mem /\ mem[<<1>>].struck_count = 0
    /\ NodeKey(Current, <<1>>) \notin DOMAIN node_state_store

\* C12: after every completed operation the root's struck count is at most
\* N and the cached remaining size is N minus the root's struck count.
C12_RemainingCache ==
    /\ mem[<<>>].struck_count <= size
    /\ 0 <= mem[<<>>].struck_count
    /\ remaining_size = size - mem[<<>>].struck_count

\* A grown cyclic shuffler after a call that reserved, drew and unreserved
C12_Witness ==
    /\ cyclic /\ size = 66 /\ resizes = 1 /\ raised = "none"
    /\ remaining_size = 2 /\ mem[<<>>].struck_count = 64
    /\ 64 \in Queried


\* Indexes outside [0, N) that value_at is tried with
OutOfRange == {-2, -1, size, size + 1}

\* C13: value_at(i) with i < 0 or i >= N fails with an error and changes
\* nothing: the call leaves the shuffler (size, remaining size, nodes in
\* memory) and the persistence manager (node states, both index/value
\* stores) as they were and makes no write.
C13_OutOfRangeRejected ==
    \A i \in OutOfRange : \A k \in 0 .. 1 :
        value_at(Current, i, k).st = Raise(Current, "IndexOutOfRange")

\* A partly consumed shuffler of two terminals right after the rejected call
C13_Witness ==
    /\ raised = "IndexOutOfRange" /\ size = 66
    /\ Queried = 0 .. 63 /\ remaining_size = 2

\* Smaller sizes resize is tried with
Smaller == {n \in Sizes \cup {size - 1} : 1 <= n /\ n < size}

\* C14: resize(N') with N' < N fails whenever an entry has been struck
\* (root struck count # 0) and then leaves the size, the root, the
\* remaining size and the persisted state unchanged; with nothing struck
\* the shrink succeeds, giving a shuffler of size N' with N' remaining.
C14_ShrinkRejectedInUse ==
    \A n \in Smaller :
        IF mem[<<>>].struck_count # 0
        THEN resize(Current, n) = Raise(Current, "CannotShrink")
        ELSE /\ resize(Current, n).raised = "none"
             /\ resize(Current, n).size = n
             /\ resize(Current, n).remaining_size = n
             /\ resize(Current, n).nodes = node_state_store

\* A partly consumed three-level shuffler right after the rejected shrink
C14_Witness ==
    /\ raised = "CannotShrink" /\ size = 130
    /\ Queried = 0 .. 127 /\ remaining_size = 2

\* Other sizes resize is tried with
OtherSizes == {n \in Sizes \cup {size - 1, size + 1} : 1 <= n /\ n # size}

\* C15: resize(N') with N' # N on a cyclic shuffler whose permutation is
\* fully consumed (remaining = 0) fails and leaves the state unchanged,
\* whereas a fully consumed non-cyclic shuffler can still be grown: the
\* call succeeds and leaves N' - N entries remaining.
C15_ResizeClosed ==
    remaining_size = 0 =>
        \A n \in OtherSizes :
            IF cyclic
            THEN resize(Current, n) \in {Raise(Current, "CannotShrink"),
                                         Raise(Current, "CannotResizeCompleted")}
            ELSE n > size =>
                     /\ resize(Current, n).raised = "none"
                     /\ resize(Current, n).size = n
                     /\ resize(Current, n).remaining_size = n - size

\* A completed cyclic shuffler right after the rejected growth
C15_Witness ==
    /\ cyclic /\ raised = "CannotResizeCompleted" /\ size = 3
    /\ AllQueried /\ remaining_size = 0


\* C16: index_of(v) returns the stored value-to-index entry and never
\* triggers generation: the call leaves the tree, the remaining size and
\* both persistence stores unchanged and makes no write, and it returns
\* nothing for a value not yet generated.
C16_IndexOfPure ==
    \A v \in (0 - size - 1) .. (size + 1) :
        /\ index_of_call(Current, v).st = Current
        /\ index_of_call(Current, v).index = pm_index_of(Current, v)
        /\ (v >= 0 /\ v \notin ReturnedValues) => index_of_call(Current, v).index = None

\* A partly consumed cyclic shuffler holding final values, a loop-end marker
\* and values not yet generated
C16_Witness ==
    /\ cyclic /\ size = 66 /\ raised = "none"
    /\ Queried = 0 .. 63 /\ returned[63] = 65
    /\ index_of_call(Current, 65).index = <<63>>
    /\ index_of_call(Current, 64).index = None
    /\ index_of_call(Current, -1).index = <<65>>


\* The index whose value is the j-th value yielded: j - 1 in the non-cyclic
\* regime; 0, then the value yielded before, in the cyclic regime
YieldIndex(j) ==
    IF ~cyclic THEN j - 1 ELSE IF j = 1 THEN 0 ELSE yielded[j - 1]

\* The iterator's next index after the values yielded so far
ExpectedNextIndex ==
    IF ~cyclic THEN Len(yielded)
    ELSE IF yielded = <<>> THEN 0
    ELSE IF yielded[Len(yielded)] = 0 THEN size
    ELSE yielded[Len(yielded)]

\* C17: iteration is finite and yields exactly N values: in the non-cyclic
\* regime value_at(0), value_at(1), ..., value_at(N-1) in that order; in
\* the cyclic regime value_at(0), then value_at of each value yielded
\* before, ending with the value 0.  The iterator stops (its next index is
\* N, where __next__ raises StopIteration) exactly when N values have been
\* yielded, and never yields more.
C17_Iteration ==
    iterator # None =>
        /\ Len(yielded) <= size
        /\ iterator[1] = ExpectedNextIndex
        /\ \A j \in 1 .. Len(yielded) :
            /\ Final(Current, YieldIndex(j))
            /\ yielded[j] = value_at(Current, YieldIndex(j), 0).value
        /\ \A j \in 1 .. (Len(yielded) - 1) : cyclic => yielded[j] # 0
        /\ (iterator[1] = size) <=> (Len(yielded) = size)
        /\ raised = "StopIteration" => iterator[1] = size

\* The iterator of a cyclic shuffler of two terminals, started after the
\* last three indexes were given values out of order, stopped after 66 values
C17_Witness ==
    /\ cyclic /\ size = 66 /\ raised = "StopIteration"
    /\ iterator = <<66>> /\ Len(yielded) = 66
    /\ yielded[1] = 1 /\ yielded[63] = 63 /\ yielded[64] = 65 /\ yielded[65] = 64
    /\ yielded[66] = 0

(***************************************************************************)
(* Uniformity: the draws of one call and the values they yield             *)
(***************************************************************************)

\* The start of the open loop index i ends (the inverted marker stored at i),
\* or i itself when no open loop ends at i
LoopStartOf(s, i) ==
    IF i \in DOMAIN s.iv /\ s.iv[i] < 0 THEN Invert(s.iv[i]) ELSE i

\* The values consistent with the constraints for index i: not returned
\* before and, in the cyclic regime, not the start of i's own open loop
Consistent(s, i) ==
    ((0 .. (s.size - 1)) \ ReturnedValues)
        \ (IF s.cyclic THEN {LoopStartOf(s, i)} ELSE {})

\* The incremental values random.randrange(0, remaining_size) can draw in
\* value_at(i): the cyclic regime draws after the loop start is reserved
DrawsMade(s) ==
    IF s.cyclic THEN 0 .. (s.remaining_size - 2) ELSE 0 .. (s.remaining_size - 1)

\* The cyclic call on the last index without a value: nothing remains once
\* the loop start is reserved and no draw is made
ClosingCall(s) == s.cyclic /\ s.remaining_size = 1

\* The values value_at(i) yields over the draws it can make
DrawnValues(s, i) == {value_at(s, i, k).value : k \in DrawsMade(s)}

\* The draws of value_at(i) yield different values, all of the consistent ones
DrawsCoverConsistent(s, i) ==
    /\ \A k \in DrawsMade(s) : value_at(s, i, k).st.raised = "none"
    /\ DrawnValues(s, i) = Consistent(s, i)
    /\ Cardinality(DrawnValues(s, i)) = Cardinality(DrawsMade(s))

\* C18 as stated: for every index without a value, the value value_at(i)
\* returns is one of the consistent values (not returned before and, in the
\* cyclic regime, not the start of i's own still-open loop), each draw
\* yields a different consistent value and every consistent value is
\* yielded by some draw.
C18_UniformAsStated ==
    \A i \in NextIndexes(Current) :
        /\ value_at(Current, i, 0).value \in Consistent(Current, i)
        /\ DrawsCoverConsistent(Current, i)

\* C18: for every index without a value, unless the call is the one that
\* closes the single cycle, the draws k in [0, remaining) value_at(i) can
\* make (remaining taken after the loop start is reserved in the cyclic
\* regime) yield different values, every consistent value is yielded by
\* some draw and nothing else is; the closing call of the cyclic regime
\* makes no draw, no value is consistent and it returns the start of i's
\* own loop.
C18_Uniform ==
    \A i \in NextIndexes(Current) :
        IF ClosingCall(Current)
        THEN /\ Consistent(Current, i) = {}
             /\ DrawsMade(Current) = {}
             /\ value_at(Current, i, 0).value = LoopStartOf(Current, i)
             /\ value_at(Current, i, 0).st.raised = "none"
        ELSE /\ DrawsCoverConsistent(Current, i)
             /\ value_at(Current, i, 0).value \in Consistent(Current, i)

\* A cyclic shuffler of three terminals with the first 127 indexes given
\* values and the open loop 0 -> ... -> 127 (start 0, end 127): index 127
\* can draw either of the two values left other than 0, index 128 any of
\* the three left but itself
C18_Witness ==
    /\ cyclic /\ size = 130 /\ remaining_size = 3 /\ raised = "none"
    /\ 126 \in Queried /\ returned[126] = 127
    /\ 127 \notin Queried /\ 128 \notin Queried /\ 129 \notin Queried
    /\ LoopStartOf(Current, 127) = 0
    /\ Consistent(Current, 127) = {128, 129}
    /\ DrawnValues(Current, 127) = {128, 129}
    /\ DrawnValues(Current, 128) = {0, 129}

(***************************************************************************)
(* The order of the persistence writes of one value_at call                *)
(***************************************************************************)

RECURSIVE PathTo(_, _, _)
\* The descent from the node at path to the terminal node of entry v: right
\* (0) where the node's bit is clear in v, left (1) where it is set
PathTo(s, v, path) ==
    IF NodeTerminal(s, path) THEN path
    ELSE PathTo(s, v, Append(path, IF is_clear(v, NodeBitNumber(s, path)) THEN 0 ELSE 1))

\* The keys of the nodes on the descent to entry v, the root first
KeysTo(s, v) ==
    [j \in 1 .. (Len(PathTo(s, v, <<>>)) + 1) |->
        NodeKey(s, SubSeq(PathTo(s, v, <<>>), 1, j - 1))]

\* The writes log[from + 1 .. from + Len(keys)] are node-state writes of the
\* given operations to the given keys, in the order of keys
NodeWritesAt(log, from, keys, ops) ==
    /\ Len(log) >= from + Len(keys)
    /\ \A j \in 1 .. Len(keys) :
        /\ log[from + j].op \in ops
        /\ log[from + j].k = keys[j]

\* The writes of a completed non-cyclic value_at(index) that returned value:
\* the descent of the draw root to leaf, then the pair
NonCyclicWriteOrder(s, log, index, value) ==
    /\ Len(log) = Len(KeysTo(s, value)) + 1
    /\ NodeWritesAt(log, 0, KeysTo(s, value), {"save_node_state"})
    /\ log[Len(log)] = [op |-> "save_index_value", k |-> index, v |-> value]

\* The writes of a completed cyclic value_at(index) that returned value, d
\* writes (0 or 1) deleting the marker first: the reserve descent to
\* loop_start root to leaf, then (unless the call closes the cycle) the
\* descent of the draw root to leaf, the join of the loops, and the
\* unreserve of the reserved nodes root to leaf, then the pair
CyclicWriteOrder(s, log, index, value, loop_start, d, closing) ==
    LET reserve == KeysTo(s, loop_start)
        draw == KeysTo(s, value)
    IN  /\ d = 1 => /\ log[1].op = "delete_index_value"
                    /\ log[1].k = index
                    /\ log[1].v = Invert(loop_start)
        /\ NodeWritesAt(log, d, reserve, {"save_node_state"})
        /\ log[Len(log)] = [op |-> "save_index_value", k |-> index, v |-> value]
        /\ IF closing
           THEN Len(log) = d + Len(reserve) + 1
           ELSE /\ Len(log) = d + (2 * Len(reserve)) + Len(draw) + 2
                /\ NodeWritesAt(log, d + Len(reserve), draw, {"save_node_state"})
                /\ log[d + Len(reserve) + Len(draw) + 1].op = "save_index_value"
                /\ log[d + Len(reserve) + Len(draw) + 1].v = Invert(loop_start)
                /\ NodeWritesAt(log, d + Len(reserve) + Len(draw) + 1, reserve,
                                {"save_node_state", "delete_node_state"})

\* The writes of value_at(index) with draw k from state s are in order
WriteOrder(s, index, k) ==
    LET r == value_at(s, index, k)
    IN  /\ r.st.raised = "none"
        /\ IF s.cyclic
           THEN CyclicWriteOrder(s, r.st.log, index, r.value, LoopStartOf(s, index),
                                 IF LoopStartOf(s, index) = index THEN 0 ELSE 1,
                                 ClosingCall(s))
           ELSE NonCyclicWriteOrder(s, r.st.log, index, r.value)

\* C20: within one value_at call that generates a value, the node-state
\* writes of each descent occur in strict root-to-leaf order; in a cyclic
\* call every reserve write comes before the writes of the random draw,
\* which come before any unreserve write; the pair (i, v) is written last.
C20_WriteOrder ==
    \A i \in NextIndexes(Current) : \A k \in DrawInputs(Current, i) :
        WriteOrder(Current, i, k)

\* A cyclic shuffler of three terminals whose open loop starting at 0 ends
\* at 127: value_at(127) with the draw that yields 128 deletes the marker,
\* reserves 0 along the keys 511, 255, 127, draws 128 along 511, 510, 382,
\* joins 128 to 0, unreserves along 511, 255, 127 and writes (127, 128) last
C20_Witness ==
    /\ cyclic /\ size = 130 /\ remaining_size = 3 /\ raised = "none"
    /\ LoopStartOf(Current, 127) = 0
    /\ 127 \in NextIndexes(Current)
    /\ KeysTo(Current, 0) = <<511, 255, 127>>
    /\ \E k \in DrawInputs(Current, 127) :
        /\ value_at(Current, 127, k).value = 128
        /\ KeysTo(Current, 128) = <<511, 510, 382>>
        /\ Len(value_at(Current, 127, k).st.log) = 12
        /\ WriteOrder(Current, 127, k)

(***************************************************************************)
(* A value_at call interrupted after some of its persistence writes        *)
(***************************************************************************)

\* The number of indexes without a final value in the persistence manager
UnassignedCount(s) == s.size - Cardinality({j \in DOMAIN s.iv : s.iv[j] >= 0})

\* Some call returned a value for a new index since the interruption
CompletedSince == Cardinality(Queried) > interrupted[1].queried

\* Every pair returned before or after the interruption is still stored
InterruptedPairsIntact ==
    \A j \in Queried : pm_value_at(Current, j) = <<returned[j]>>

\* After the interruption remaining is the number of indexes without a
\* value or one lower, and not lower once a later call has completed
InterruptedRemaining ==
    /\ remaining_size \in {UnassignedCount(Current) - 1, UnassignedCount(Current)}
    /\ CompletedSince => remaining_size = UnassignedCount(Current)

\* After the interruption the permutation can be completed: no call fails,
\* no value is returned for two indexes, and once every index has its value
\* the cyclic regime has produced a single cycle
InterruptedCompletes ==
    /\ raised \in {"none", "IndexOutOfRange"}
    /\ \A i, j \in Queried : i # j => returned[i] # returned[j]
    /\ (cyclic /\ AllQueried) => SingleCycle(Current)

\* C19: after a value_at call was interrupted after any prefix of its
\* persistence writes and a new shuffler was constructed over the persisted
\* state, every previously generated pair is intact, remaining is at most
\* one lower than the number of indexes without a value and exact again
\* after the next completed call, and the permutation can be completed.
C19_InterruptionSafe ==
    interrupted # None =>
        /\ InterruptedPairsIntact
        /\ InterruptedRemaining
        /\ InterruptedCompletes

(***************************************************************************)
(* The strike operation (_next_value) on the tree                          *)
(***************************************************************************)

\* The struck count persisted under key, 0 when nothing is persisted
StoredCount(s, key) == IF key \in DOMAIN s.nodes THEN s.nodes[key].struck_count ELSE 0

\* The struck bitmap persisted under key, all clear when nothing is persisted
StoredBitmap(s, key) == IF key \in DOMAIN s.nodes THEN s.nodes[key].struck_bitmap ELSE WORD_ZERO

\* The key of the terminal node of entry v
TerminalKeyOf(s, v) == KeysTo(s, v)[Len(KeysTo(s, v))]

\* Entry v is struck: its bit is set in the bitmap of its terminal node
Struck(s, v) == WordIsSet(StoredBitmap(s, TerminalKeyOf(s, v)), v % TERMINAL_SIZE)

\* The entries of the tree that are not struck, over the whole range of the
\* root (a multiple of the terminal size)
UnstruckEntries(s) == {v \in 0 .. (bit(s.root_bit + 1) - 1) : ~Struck(s, v)}

\* The struck entries below the size
StruckBelowSize(s) == {v \in 0 .. (s.size - 1) : Struck(s, v)}

\* The state in which the cyclic value_at(i) makes its draw: the marker of
\* i deleted, the loop start reserved and accounted for
ReservedFor(s, i) ==
    LET cleared == IF LoopStartOf(s, i) = i THEN s
                   ELSE pm_delete_index_value(s, i, Invert(LoopStartOf(s, i)))
        reserve == ReserveLoop(cleared, <<>>, LoopStartOf(s, i), LoopStartOf(s, i) % TERMINAL_SIZE)
    IN  [reserve.st EXCEPT !.remaining_size = @ - 1]

\* The states _next_value is called in: between calls in the non-cyclic
\* regime, after the reserve of a call that does not close the cycle in
\* the cyclic regime
StrikeStates ==
    IF ~cyclic THEN {Current}
    ELSE {ReservedFor(Current, i) : i \in {j \in NextIndexes(Current) : remaining_size > 1}}

\* The draws checked in a strike state: the lowest and the highest, and
\* every draw once no more than MaxFree + 1 entries remain
StrikeInputs(s) ==
    IF s.remaining_size > MaxFree + 1 THEN {0, s.remaining_size - 1}
    ELSE 0 .. (s.remaining_size - 1)

\* _next_value with draw k from s strikes the k-th smallest unstruck entry
\* v and adds one to the nodes on the path to v only
StrikesKth(s, k) ==
    LET r == next_value(s, k)
        v == r.value
    IN  /\ r.st.raised = "none"
        /\ v \in UnstruckEntries(s)
        /\ Cardinality({u \in UnstruckEntries(s) : u < v}) = k
        /\ v < s.size
        /\ Struck(r.st, v)
        /\ \A key \in (DOMAIN s.nodes) \cup (DOMAIN r.st.nodes) \cup Range(KeysTo(s, v)) :
            IF key \in Range(KeysTo(s, v))
            THEN /\ StoredCount(r.st, key) = StoredCount(s, key) + 1
                 /\ StoredBitmap(r.st, key) =
                        IF key = TerminalKeyOf(s, v)
                        THEN WordSet(StoredBitmap(s, key), v % TERMINAL_SIZE)
                        ELSE StoredBitmap(s, key)
            ELSE /\ StoredCount(r.st, key) = StoredCount(s, key)
                 /\ StoredBitmap(r.st, key) = StoredBitmap(s, key)
        /\ \A path \in DOMAIN r.st.mem :
            r.st.mem[path].struck_count = StoredCount(r.st, NodeKey(r.st, path))

\* C21: the strike operation with input k, 0 <= k < remaining, returns the
\* k-th smallest (0-based) unstruck global index; that index is less than
\* N; it becomes struck; the struck count of exactly the nodes on the path
\* from the root to its terminal node increases by 1 and every other node
\* is unchanged.
C21_StrikeKth ==
    \A s \in StrikeStates : \A k \in StrikeInputs(s) : StrikesKth(s, k)

\* A non-cyclic shuffler of three levels with 0..126 and 128 struck: the
\* draw 0 strikes 127 in the terminal with key 254, the draw 1 strikes 129
\* along the left node of the root in the terminal with key 382
C21_Witness ==
    /\ ~cyclic /\ size = 130 /\ remaining_size = 2 /\ raised = "none"
    /\ UnstruckEntries(Current) \cap (0 .. 129) = {127, 129}
    /\ next_value(Current, 0).value = 127
    /\ next_value(Current, 1).value = 129
    /\ KeysTo(Current, 129) = <<511, 510, 382>>
    /\ StoredCount(Current, 382) = 1
    /\ StoredCount(next_value(Current, 1).st, 382) = 2
    /\ StoredCount(next_value(Current, 1).st, 254) = StoredCount(Current, 254)

(***************************************************************************)
(* Open loops of the cyclic regime                                         *)
(***************************************************************************)

\* The indexes holding a final value
FinalIndexes(s) == {i \in DOMAIN s.iv : s.iv[i] >= 0}

RECURSIVE BackChain(_, _, _)
\* The indexes from which index e is reached by following final values,
\* added to acc: the index whose final value is e, then the index whose
\* final value is that index, and so on
BackChain(s, e, acc) ==
    IF /\ pm_index_of(s, e) # None
       /\ pm_index_of(s, e)[1] \notin acc
       /\ pm_value_at(s, pm_index_of(s, e)[1]) = <<e>>
    THEN BackChain(s, pm_index_of(s, e)[1], acc \cup {pm_index_of(s, e)[1]})
    ELSE acc

\* Following final values from any index holding one leads to an index
\* that holds none: the final entries contain no closed cycle
NoClosedCycle(s) ==
    UNION {BackChain(s, e, {}) : e \in (0 .. (s.size - 1)) \ FinalIndexes(s)}
        = FinalIndexes(s)

\* C22: cyclic regime: in every reachable state in which fewer than N final
\* values are assigned, the final index-to-value entries contain no closed
\* cycle, and no next call that leaves an index without a value returns the
\* start of the loop it extends; with the N-th value assigned the entries
\* form one cycle.
C22_NoPrematureCycle ==
    cyclic =>
        /\ Cardinality(FinalIndexes(Current)) < size =>
            /\ NoClosedCycle(Current)
            /\ \A i \in NextIndexes(Current) : \A k \in DrawInputs(Current, i) :
                ~ClosingCall(Current) =>
                    value_at(Current, i, k).value # LoopStartOf(Current, i)
        /\ Cardinality(FinalIndexes(Current)) = size => SingleCycle(Current)

\* A cyclic shuffler of three levels with two indexes left: the loop that
\* starts at 0 runs through 127 indexes and ends at 128, and 129 is not on it
C22_Witness ==
    /\ cyclic /\ size = 130 /\ remaining_size = 2 /\ raised = "none"
    /\ Cardinality(FinalIndexes(Current)) = 128
    /\ LoopStartOf(Current, 128) = 0
    /\ BackChain(Current, 128, {}) = (0 .. 127)
    /\ BackChain(Current, 129, {}) = {}
    /\ NoClosedCycle(Current)

\* The indexes holding a negative value (the marker of an open loop's end)
MarkerIndexes(s) == {i \in DOMAIN s.iv : s.iv[i] < 0}

\* The indexes whose final value is v
HoldersOf(s, v) == {j \in DOMAIN s.iv : s.iv[j] = v}

\* Index e holds the marker of an open loop: the complement of the marker
\* is the start of the loop, the start is no index's final value, and e is
\* reached from the start by following final values
MarksOpenLoop(s, e) ==
    /\ Invert(s.iv[e]) \in 0 .. (s.size - 1)
    /\ Invert(s.iv[e]) \in BackChain(s, e, {})
    /\ HoldersOf(s, Invert(s.iv[e])) = {}

\* The index the marker of the loop extended by value v is stored at: the
\* end of the open loop that starts at v, or v itself when no loop starts
\* at v
JoinedEnd(s, v) ==
    IF HoldersOf(s, Invert(v)) = {} THEN v ELSE CHOOSE e \in HoldersOf(s, Invert(v)) : TRUE

\* value_at(i) with draw k from s, not the closing call, leaves the only
\* marker of the extended loop at the end of the loop the value drawn
\* started, or at the value itself
MarkerMoved(s, i, k) ==
    LET r == value_at(s, i, k)
    IN  /\ r.st.raised = "none"
        /\ pm_value_at(r.st, i) = <<r.value>>
        /\ pm_value_at(r.st, JoinedEnd(s, r.value)) = <<Invert(LoopStartOf(s, i))>>
        /\ HoldersOf(r.st, Invert(LoopStartOf(s, i))) = {JoinedEnd(s, r.value)}
        /\ HoldersOf(r.st, Invert(r.value)) = {}
        /\ MarkerIndexes(r.st) = (MarkerIndexes(s) \ {i, JoinedEnd(s, r.value)})
                                     \cup {JoinedEnd(s, r.value)}

\* C23: cyclic regime: after every completed value_at each open loop has
\* exactly one index holding a negative value; that index is the loop's
\* end, reached from the loop's start by following final values, and the
\* complement of the negative value is the loop's start; an index that
\* ends a chain of final values holds such a marker; and a call whose drawn
\* value is the start of another open loop moves the marker to that loop's
\* former end.
C23_OpenLoopMarkers ==
    cyclic =>
        /\ \A e \in MarkerIndexes(Current) : MarksOpenLoop(Current, e)
        /\ \A e \in (0 .. (size - 1)) \ FinalIndexes(Current) :
            BackChain(Current, e, {}) # {} => e \in MarkerIndexes(Current)
        /\ \A i \in NextIndexes(Current) : \A k \in DrawInputs(Current, i) :
            ~ClosingCall(Current) => MarkerMoved(Current, i, k)

\* A cyclic shuffler of three levels after value_at(128) drew 0, the start
\* of the open loop ending at 127: the marker at 127 now names 128 as the
\* start, and the loop runs from 128 through 0 to 127
C23_Witness ==
    /\ cyclic /\ size = 130 /\ raised = "none"
    /\ 128 \in Queried /\ returned[128] = 0
    /\ 127 \notin Queried /\ 129 \notin Queried
    /\ pm_value_at(Current, 127) = <<-129>>
    /\ MarkerIndexes(Current) = {127}
    /\ BackChain(Current, 127, {}) = (0 .. 126) \cup {128}
    /\ MarkerMoved(Current, 127, 0)

(***************************************************************************)
(* The struck entries of the tree and the final values                     *)
(***************************************************************************)

\* The struck entries over the whole range of the root
StruckEntries(s) == {v \in 0 .. (bit(s.root_bit + 1) - 1) : Struck(s, v)}

\* The final values stored in the index-to-value mapping
FinalValues(s) == {s.iv[i] : i \in FinalIndexes(s)}

\* value_at(i) with draw k from s adds the value it returns to the struck
\* entries and one to the struck count of each node on the path to that
\* value, and leaves every other entry and count as it was
StrikesValueOnly(s, i, k) ==
    LET r == value_at(s, i, k)
    IN  /\ r.st.raised = "none"
        /\ StruckEntries(r.st) = StruckEntries(s) \cup {r.value}
        /\ r.value \notin StruckEntries(s)
        /\ (s.cyclic /\ ~ClosingCall(s)) => ~Struck(r.st, LoopStartOf(s, i))
        /\ \A key \in (DOMAIN s.nodes) \cup (DOMAIN r.st.nodes) :
            StoredCount(r.st, key) =
                StoredCount(s, key) + (IF key \in Range(KeysTo(s, r.value)) THEN 1 ELSE 0)

\* C24: after every completed value_at the set of struck positions of the
\* tree is exactly the set of final values stored in the index-to-value
\* mapping; a call adds the value it returns and nothing else, a cyclic
\* call that does not close the cycle leaving the loop start unstruck and
\* every node on the reserve path as it was apart from the strike's own
\* increments.
C24_StruckAreFinalValues ==
    /\ StruckEntries(Current) = FinalValues(Current)
    /\ \A i \in NextIndexes(Current) : \A k \in DrawInputs(Current, i) :
        StrikesValueOnly(Current, i, k)

\* A cyclic shuffler of three levels whose loop 128 -> 0 -> ... -> 127 was
\* joined by value_at(128): 128, reserved during that call, is not struck,
\* 0 is, and the next value_at(129) strikes its value only
C24_Witness ==
    /\ cyclic /\ size = 130 /\ raised = "none" /\ remaining_size = 2
    /\ 128 \in Queried /\ returned[128] = 0
    /\ StruckEntries(Current) = 0 .. 127
    /\ ~Struck(Current, 128)
    /\ value_at(Current, 129, 0).value = 128
    /\ StrikesValueOnly(Current, 129, 0)

(***************************************************************************)
(* The call that closes the cycle                                          *)
(***************************************************************************)

\* Index i is the end of the one open loop that holds every index: i holds
\* a marker and every other index leads to i by following final values
EndsTheOnlyLoop(s, i) ==
    /\ i \in MarkerIndexes(s)
    /\ MarkerIndexes(s) = {i}
    /\ BackChain(s, i, {}) = (0 .. (s.size - 1)) \ {i}
    /\ FinalIndexes(s) = (0 .. (s.size - 1)) \ {i}

\* value_at(i) from s returns the start of i's loop, leaves it struck, the
\* root's struck count at the size and nothing remaining
ClosesCycle(s, i) ==
    LET r == value_at(s, i, 0)
    IN  /\ r.st.raised = "none"
        /\ r.value = LoopStartOf(s, i)
        /\ pm_value_at(r.st, i) = <<LoopStartOf(s, i)>>
        /\ ~Struck(s, LoopStartOf(s, i))
        /\ Struck(r.st, LoopStartOf(s, i))
        /\ r.st.mem[<<>>].struck_count = s.size
        /\ StoredCount(r.st, r.st.root_key) = s.size
        /\ r.st.remaining_size = 0
        /\ MarkerIndexes(r.st) = {}

\* C25: cyclic regime: the remaining size is 0 after the reserve of
\* value_at(i) only when i is the end of the single open loop that already
\* holds all N indexes, or N = 1; value_at then returns the loop start,
\* keeps the reservation as the final strike and leaves the root's struck
\* count at N and the remaining size at 0.
C25_ClosingCall ==
    cyclic =>
        \A i \in NextIndexes(Current) :
            ReservedFor(Current, i).remaining_size = 0 =>
                /\ size = 1 \/ EndsTheOnlyLoop(Current, i)
                /\ ClosesCycle(Current, i)

\* A cyclic shuffler of two terminals with 65 final values, the last three
\* given out of order: value_at(64), the end of the loop 65 -> ... -> 64,
\* closes the cycle with 65
C25_Witness ==
    /\ cyclic /\ size = 66 /\ remaining_size = 1 /\ raised = "none"
    /\ 64 \in NextIndexes(Current)
    /\ returned[63] = 64 /\ returned[65] = 0
    /\ ReservedFor(Current, 64).remaining_size = 0
    /\ EndsTheOnlyLoop(Current, 64)
    /\ value_at(Current, 64, 0).value = 65
    /\ ClosesCycle(Current, 64)

(***************************************************************************)
(* The growing resize that builds a new root                               *)
(***************************************************************************)

\* The sizes a shuffler is grown to: the sizes of the model and one of four
\* levels
GrownSizes == Sizes \cup {258}

\* The path of n right steps from the root
RightSpine(n) == [j \in 1 .. n |-> 0]

\* resize(new_size) from s builds a new root above the root of s
BuildsNewRoot(s, new_size) ==
    /\ new_size > s.size
    /\ ~(s.cyclic /\ s.remaining_size = 0)
    /\ Max(bit_length(new_size - 1), TERMINAL_SIZE_BIT_COUNT) # s.root_bit + 1

\* The tree resize(new_size) builds from s: the right nodes from the new
\* root down to above the old root carry the old root's struck count, in
\* memory and persisted; the old root is the next right node, as it was;
\* nothing else is persisted or changed; the struck entries are the same
\* and the struck counts of the new tree add up
GrownTree(s, new_size) ==
    LET t == resize(s, new_size)
        levels == t.root_bit - s.root_bit
        old_count == s.mem[<<>>].struck_count
    IN  /\ t.raised = "none"
        /\ levels > 0
        /\ t.size = new_size
        /\ t.remaining_size = new_size - old_count
        /\ NodeKey(t, RightSpine(levels)) = s.root_key
        /\ \A j \in 0 .. (levels - 1) :
            /\ NodeKey(t, RightSpine(j)) \notin DOMAIN s.nodes
            /\ StoredCount(t, NodeKey(t, RightSpine(j))) = old_count
            /\ old_count # 0 => /\ RightSpine(j) \in DOMAIN t.mem
                                /\ t.mem[RightSpine(j)].struck_count = old_count
                                /\ ~NodeTerminal(t, RightSpine(j))
        /\ old_count # 0 => /\ RightSpine(levels) \in DOMAIN t.mem
                            /\ t.mem[RightSpine(levels)].struck_count = old_count
                            /\ RightSpine(levels + 1) \notin DOMAIN t.mem
        /\ DOMAIN t.nodes =
               (DOMAIN s.nodes) \cup
               (IF old_count = 0 THEN {}
                ELSE {NodeKey(t, RightSpine(j)) : j \in 0 .. (levels - 1)})
        /\ \A key \in DOMAIN s.nodes : t.nodes[key] = s.nodes[key]
        /\ StruckEntries(t) = StruckEntries(s)
        /\ validate_state(t).raised = "none"
        /\ TreeCounts(validate_state(t))

\* C26: a growing resize that changes the root gives every right node from
\* the new root down to, and excluding, the old root's level the old root's
\* struck count and persists it; the walk stops at the old root's persisted
\* node and never asks a terminal for its right node; the set of struck
\* entries is unchanged and the struck counts of the new tree add up.
C26_GrowthStampsRightSpine ==
    \A new_size \in GrownSizes :
        BuildsNewRoot(Current, new_size) => GrownTree(Current, new_size)

\* A non-cyclic shuffler of one terminal with two of its three entries
\* struck, grown to three levels: the new root (key 511) and its right node
\* (key 255) both get the struck count 2, above the old root (key 127)
C26_Witness ==
    /\ ~cyclic /\ size = 3 /\ remaining_size = 1 /\ raised = "none" /\ resizes = 0
    /\ root_key = 127
    /\ BuildsNewRoot(Current, 130)
    /\ GrownTree(Current, 130)
    /\ resize(Current, 130).root_key = 511
    /\ StoredCount(resize(Current, 130), 511) = 2
    /\ StoredCount(resize(Current, 130), 255) = 2
    /\ StoredCount(resize(Current, 130), 127) = 2
    /\ Len(resize(Current, 130).log) = 2

(***************************************************************************)
(* The search for the k-th clear bit in a terminal bitmap                  *)
(***************************************************************************)

\* The clear bits of bitmap B
ClearBits(B) == {j \in 0 .. (TERMINAL_SIZE - 1) : ~WordIsSet(B, j)}

\* The search in B, whose clear bits are C, with incoming k ends with
\* nothing remaining at a clear bit with exactly k clear bits below it
SearchSelects(C, B, k) ==
    \A found \in {TerminalSearch(B, k)} :
        /\ found.remaining = 0
        /\ found.terminal_value \in C
        /\ Cardinality({j \in C : j < found.terminal_value}) = k

\* The search in B selects the (k+1)-th clear bit for every k below the
\* number of clear bits
SearchSelectsAll(B) ==
    \A C \in {ClearBits(B)} : \A k \in 0 .. (Cardinality(C) - 1) : SearchSelects(C, B, k)

\* C27: at a terminal node with struck bitmap B and incoming k smaller than
\* the number of clear bits of B, the six-step search selects the position
\* of the (k+1)-th clear bit of B (the position is clear and exactly k
\* clear bits lie below it), and the assertion that nothing remains of the
\* incremental value never fails.
C27_SearchSelectsKth ==
    /\ raised # "AssertionError"
    /\ \A path \in DOMAIN mem :
        NodeTerminal(Current, path) => SearchSelectsAll(mem[path].struck_bitmap)

\* A terminal of 64 entries with the ten chosen entries struck and then 33
\* by the middle draw 27: the search for k = 20 passes the struck bits 0,
\* 1, 15 and 16 and selects bit 24, for k = 27 it passes 31, 32 and 33 and
\* selects bit 34, for k = 52 it selects bit 61, the last clear bit
C27_Witness ==
    /\ ~cyclic /\ size = 64 /\ raised = "none"
    /\ Cardinality(DOMAIN returned) = 11 /\ returned[10] = 33
    /\ mem[<<>>].struck_bitmap = <<32771, 32769, 32771, 49153>>
    /\ Cardinality(ClearBits(mem[<<>>].struck_bitmap)) = 53
    /\ TerminalSearch(mem[<<>>].struck_bitmap, 20).terminal_value = 24
    /\ TerminalSearch(mem[<<>>].struck_bitmap, 27).terminal_value = 34
    /\ TerminalSearch(mem[<<>>].struck_bitmap, 52).terminal_value = 61
    /\ SearchSelectsAll(mem[<<>>].struck_bitmap)

(***************************************************************************)
(* The deletes issued to the persistence manager                           *)
(***************************************************************************)

\* The n-th write of log, made after the writes before it on the persistence
\* manager of s, is no delete or deletes an entry that is present: a node
\* state saved under the key, an index mapped to the value and the value
\* mapped to the index
DeletesPresent(s, log, n) ==
    \A before \in {ApplyWrites(s, log, n - 1)} :
        /\ log[n].op = "delete_node_state" => log[n].k \in DOMAIN before.nodes
        /\ log[n].op = "delete_index_value" =>
               /\ pm_value_at(before, log[n].k) = <<log[n].v>>
               /\ pm_index_of(before, log[n].v) = <<log[n].k>>

\* value_at(i) with draw k from s raises no KeyError and each of its
\* deletes finds its entry
CallDeletesPresent(s, i, k) ==
    \A r \in {value_at(s, i, k)} :
        /\ r.st.raised # "KeyError"
        /\ \A n \in 1 .. Len(r.st.log) : DeletesPresent(s, r.st.log, n)

\* C28: every delete the shuffler issues targets an entry that is present:
\* delete_node_state is called only for a key whose state is saved at that
\* moment, delete_index_value(i, x) only when the store maps i to x and x
\* to i; the in-memory persistence manager never fails on a missing key.
C28_DeletesPresent ==
    /\ raised # "KeyError"
    /\ \A i \in IndexInputs(Current) : \A k \in DrawInputs(Current, i) :
        CallDeletesPresent(Current, i, k)
    /\ \A new_size \in Sizes : resize(Current, new_size).raised # "KeyError"

\* A cyclic shuffler of two terminals with the open loop 0 -> ... -> 63 and
\* nothing struck in the left terminal: value_at(63) first deletes the
\* marker (63, -1); value_at(64) drawing 0 reserves 64 in the left terminal
\* and, on the unreserve, deletes that terminal's state, back at count 0
C28_Witness ==
    /\ cyclic /\ size = 66 /\ raised = "none" /\ remaining_size = 3
    /\ pm_value_at(Current, 63) = <<-1>>
    /\ \E k \in DrawInputs(Current, 63) :
        /\ value_at(Current, 63, k).st.log[1] = [op |-> "delete_index_value", k |-> 63, v |-> -1]
        /\ CallDeletesPresent(Current, 63, k)
    /\ \E k \in DrawInputs(Current, 64) :
        /\ value_at(Current, 64, k).value = 0
        /\ \E n \in 1 .. Len(value_at(Current, 64, k).st.log) :
            value_at(Current, 64, k).st.log[n].op = "delete_node_state"
        /\ CallDeletesPresent(Current, 64, k)

(***************************************************************************)
(* Struck counts and the sizes of the nodes' ranges                        *)
(***************************************************************************)

RECURSIVE NodeSize(_, _)
\* The size of the range of the node at path: the size at the root, and
\* below it the right or left size validate_state passes down
NodeSize(s, path) ==
    IF path = <<>> THEN s.size
    ELSE IF path[Len(path)] = 0
         THEN RightSize(NodeSize(s, SubSeq(path, 1, Len(path) - 1)),
                        NodeBitNumber(s, SubSeq(path, 1, Len(path) - 1)))
         ELSE LeftSize(NodeSize(s, SubSeq(path, 1, Len(path) - 1)),
                       NodeBitNumber(s, SubSeq(path, 1, Len(path) - 1)))

\* The right size by the two-case rule: 2^b when the size has bit b set,
\* the size otherwise
StatedRightSize(size_, bit_number) ==
    IF is_set(size_, bit_number) THEN bit(bit_number) ELSE size_

\* The left size by the two-case rule: the size less 2^b when the size has
\* bit b set, no left node otherwise
StatedLeftSize(size_, bit_number) ==
    IF is_set(size_, bit_number) THEN size_ - bit(bit_number) ELSE 0

RECURSIVE StatedNodeSize(_, _)
\* The size of the range of the node at path by the two-case rule
StatedNodeSize(s, path) ==
    IF path = <<>> THEN s.size
    ELSE IF path[Len(path)] = 0
         THEN StatedRightSize(StatedNodeSize(s, SubSeq(path, 1, Len(path) - 1)),
                              NodeBitNumber(s, SubSeq(path, 1, Len(path) - 1)))
         ELSE StatedLeftSize(StatedNodeSize(s, SubSeq(path, 1, Len(path) - 1)),
                             NodeBitNumber(s, SubSeq(path, 1, Len(path) - 1)))

\* C29 as stated: after every completed operation every node's struck count
\* lies between 0 and the size of the node's range under the partitioning
\* with right capacity 2^b and left capacity s - 2^b when the subrange size
\* s has bit b set, right capacity s and no left child otherwise; no struck
\* bit corresponds to a global index >= N.
C29_CountWithinStatedRange ==
    /\ \A v \in {validate_state(Current)} :
        \A path \in (DOMAIN v.mem) \cup (DOMAIN mem) :
            /\ 0 <= ChildStruckCount(v, path)
            /\ ChildStruckCount(v, path) <= StatedNodeSize(v, path)
    /\ StruckEntries(Current) \subseteq 0 .. (size - 1)

\* C29: after every completed operation every node's struck count lies
\* between 0 and the size of the node's range under the partitioning of N:
\* right and left capacity 2^b each when the subrange size s is the node's
\* full capacity 2^(b+1), right capacity 2^b and left capacity s - 2^b when
\* s has bit b set, right capacity s and no left child otherwise; no struck
\* bit corresponds to a global index >= N.
C29_CountWithinRange ==
    /\ \A v \in {validate_state(Current)} :
        \A path \in (DOMAIN v.mem) \cup (DOMAIN mem) :
            /\ 0 <= ChildStruckCount(v, path)
            /\ ChildStruckCount(v, path) <= NodeSize(v, path)
    /\ StruckEntries(Current) \subseteq 0 .. (size - 1)

\* A consumed non-cyclic shuffler of three levels: the right node of the
\* root has the full range of 128 and splits it evenly, and its left node
\* (entries 64..127) holds 64 struck entries; the left node of the root has
\* a range of 2
C29_Witness ==
    /\ ~cyclic /\ size = 130 /\ remaining_size = 0 /\ raised = "none"
    /\ NodeSize(Current, <<0>>) = 128
    /\ NodeSize(Current, <<0, 0>>) = 64
    /\ NodeSize(Current, <<0, 1>>) = 64
    /\ StatedNodeSize(Current, <<0, 1>>) = 0
    /\ <<0, 1>> \in DOMAIN mem /\ mem[<<0, 1>>].struck_count = 64
    /\ NodeSize(Current, <<1>>) = 2
    /\ <<1>> \in DOMAIN mem /\ mem[<<1>>].struck_count = 2

(***************************************************************************)
(* The keys of the nodes                                                   *)
(***************************************************************************)

\* The exclusive upper bound of the keys: 2^(B+2), B + 1 the bit length of
\* N - 1 raised to the bit count of a terminal if lower
KeyBound(s) == bit(Max(bit_length(s.size - 1), TERMINAL_SIZE_BIT_COUNT) + 1)

\* The nodes constructed in s have pairwise distinct keys within the bounds
DistinctKeys(s) ==
    /\ \A p, q \in DOMAIN s.mem : p # q => NodeKey(s, p) # NodeKey(s, q)
    /\ \A p \in DOMAIN s.mem : 0 < NodeKey(s, p) /\ NodeKey(s, p) < KeyBound(s)

\* C30: in every reachable state the keys of all live nodes (right child
\* key = parent key minus 2^(b+1), left child key = parent key minus 1 for
\* a parent with bit number b) are pairwise distinct, strictly greater than
\* 0 and strictly less than 2^(B+2), B + 1 being the bit length of N - 1
\* clamped up to 6: for the nodes in memory, the nodes the validation walk
\* constructs and the keys in the persistence manager, each of which is
\* the key of one node of the tree.
C30_KeysDistinctBounded ==
    /\ DistinctKeys(Current)
    /\ DistinctKeys(validate_state(Current))
    /\ root_key = KeyBound(Current) - 1
    /\ \A key \in DOMAIN node_state_store :
        /\ 0 < key /\ key < KeyBound(Current)
        /\ \E p \in DOMAIN validate_state(Current).mem :
            NodeKey(validate_state(Current), p) = key

\* A consumed non-cyclic shuffler of three levels: the six nodes of the
\* tree of 130 entries are persisted under six keys below 512
C30_Witness ==
    /\ ~cyclic /\ size = 130 /\ remaining_size = 0 /\ raised = "none"
    /\ KeyBound(Current) = 512
    /\ {NodeKey(validate_state(Current), p) : p \in DOMAIN validate_state(Current).mem}
           = {511, 255, 127, 254, 510, 382}
    /\ DOMAIN node_state_store = {511, 255, 127, 254, 510, 382}

(***************************************************************************)
(* The key of the root                                                     *)
(***************************************************************************)

\* The number of bits sufficient to represent N - 1, clamped up to 6
SizeBits(s) == Max(bit_length(s.size - 1), TERMINAL_SIZE_BIT_COUNT)

\* The root is persisted under key with the struck count of the shuffler
RootPersistedUnder(s, key) ==
    /\ NodeKey(s, <<>>) = key
    /\ s.size - s.remaining_size > 0 =>
        key \in DOMAIN s.nodes /\ s.nodes[key].struck_count = s.size - s.remaining_size

\* The statement of C31 as given: the root's persistence key is
\* 2^(B+1) - 1, B + 1 being the number of bits sufficient to represent
\* N - 1, clamped up to 6.
C31_RootKeyAsStated ==
    /\ root_key = bit(SizeBits(Current)) - 1
    /\ RootPersistedUnder(Current, bit(SizeBits(Current)) - 1)

\* C31: the root's persistence key is 2^(B+2) - 1, B + 1 being the number
\* of bits sufficient to represent N - 1, clamped up to 6: the bit manager
\* of the tree has B + 2 bits and the key of the root is all of them; the
\* root, once an entry is struck, is persisted under that key.
C31_RootKey ==
    /\ root_key = bit(SizeBits(Current) + 1) - 1
    /\ root_bit = SizeBits(Current) - 1
    /\ RootPersistedUnder(Current, bit(SizeBits(Current) + 1) - 1)

\* A shuffler of 130 entries (B + 1 = 8) with entries struck: the root is
\* persisted under 511 = 2^9 - 1, not under 255 = 2^8 - 1
C31_Witness ==
    /\ size = 130 /\ remaining_size < 130 /\ raised = "none"
    /\ SizeBits(Current) = 8
    /\ root_key = 511 /\ 511 \in DOMAIN node_state_store
    /\ node_state_store[511].struck_count = 130 - remaining_size

(***************************************************************************)
(* The two index/value stores                                              *)
(***************************************************************************)

\* Every stored pair (i, x) of the index-to-value store is found under x
\* in the value-to-index store
ForwardInverse(s) == \A i \in DOMAIN s.iv : s.iv[i] \in DOMAIN s.vi /\ s.vi[s.iv[i]] = i

\* The values x for which index_of(x) returns an index that does not hold x
StaleValues(s) == {x \in DOMAIN s.vi : s.vi[x] \notin DOMAIN s.iv \/ s.iv[s.vi[x]] # x}

\* C32: after every completed value_at the value-to-index store is the
\* exact inverse of the index-to-value store, negative markers included:
\* whenever index_of(x) returns i, the stored value at i is x (no stale
\* value-to-index entry survives a cyclic splice or loop extension).
C32_StoresInverse ==
    /\ ForwardInverse(Current)
    /\ \A x \in DOMAIN value_index_store :
        index_of(Current, x) = <<value_index_store[x]>>
            /\ pm_value_at(Current, value_index_store[x]) = <<x>>

\* The extent of the stale entries: every stored pair, markers included,
\* is found by index_of, and whenever index_of(x) returns i for a value
\* x >= 0 the stored value at i is x; a stale entry is the marker ~v of a
\* loop start v that a later call drew as a value (joining the loops): v
\* is a final value from then on and no later draw returns it.
StaleEntriesAreJoinedMarkers ==
    /\ ForwardInverse(Current)
    /\ \A x \in DOMAIN value_index_store :
        /\ index_of(Current, x) = <<value_index_store[x]>>
        /\ x >= 0 => pm_value_at(Current, value_index_store[x]) = <<x>>
    /\ \A x \in StaleValues(Current) :
        /\ cyclic /\ x < 0
        /\ (-x) - 1 \in FinalValues(Current)
        /\ Struck(Current, (-x) - 1)

\* A cyclic shuffler of 3 entries after value_at(0) = 1 and value_at(2) = 0:
\* the second call joined its loop to the loop 0 -> 1, the marker -3 over
\* the marker -1 at index 1; index_of(-1) still returns 1
C32_Witness ==
    /\ cyclic /\ size = 3 /\ raised = "none" /\ remaining_size = 1
    /\ index_value_store = (0 :> 1) @@ (1 :> -3) @@ (2 :> 0)
    /\ index_of(Current, -1) = <<1>>
    /\ index_of(Current, -3) = <<1>>
    /\ StaleValues(Current) = {-1}

(***************************************************************************)
(* The remaining size and the draws                                        *)
(***************************************************************************)

\* The indexes value_at is tried with: the first and the last index, the
\* first index without a final value and the indexes of the free window
TriedIndexes(s) ==
    {i \in 0 .. (s.size - 1) :
        \/ i \in {0, s.size - 1} \/ i >= FreeFrom(s)
        \/ (~Final(s, i) /\ \A j \in 0 .. (i - 1) : Final(s, j))}

\* The draws value_at is tried with: the first, the middle and the last of
\* the range of randrange, and 0 when no draw is made
TriedDraws(s) ==
    IF DrawsMade(s) = {} THEN {0}
    ELSE {0, Cardinality(DrawsMade(s)) \div 2, Cardinality(DrawsMade(s)) - 1}

\* value_at(i) with draw k completes with a value below the size, stored
\* at i, and leaves the remaining size equal to the number of indexes
\* without a final value
CompletesCounted(s, i, k) ==
    \A r \in {value_at(s, i, k)} :
        /\ r.st.raised = "none"
        /\ 0 <= r.value /\ r.value < s.size
        /\ pm_value_at(r.st, i) = <<r.value>>
        /\ r.st.remaining_size = UnassignedCount(r.st)
        /\ r.st.remaining_size = IF Final(s, i) THEN s.remaining_size ELSE s.remaining_size - 1

\* C33: after any sequence of completed value_at calls and successful
\* resizes, remaining equals the number of indexes in [0, N) that have no
\* final (non-negative) value, so whenever value_at makes a random draw
\* the range [0, remaining) is not empty (an index without a final value
\* is left, and in the cyclic regime one more than the reserved loop
\* start unless the call closes the cycle without a draw) and value_at on
\* an in-range index always completes with a value.
C33_RemainingCountsUnassigned ==
    /\ remaining_size = UnassignedCount(Current)
    /\ remaining_size = size - mem[<<>>].struck_count
    /\ \A i \in 0 .. (size - 1) :
        ~Final(Current, i) =>
            /\ remaining_size >= 1
            /\ ~ClosingCall(Current) => DrawsMade(Current) # {}
    /\ \A i \in TriedIndexes(Current) : \A k \in TriedDraws(Current) :
        CompletesCounted(Current, i, k)

\* A non-cyclic shuffler grown from 66 to 130 entries after 64 calls:
\* 66 indexes are left without a value and value_at(129) draws from 66
C33_Witness ==
    /\ ~cyclic /\ size = 130 /\ resizes = 1 /\ raised = "none"
    /\ remaining_size = 66 /\ UnassignedCount(Current) = 66
    /\ Cardinality(DrawsMade(Current)) = 66
    /\ value_at(Current, 129, 65).st.raised = "none"
    /\ value_at(Current, 129, 65).st.remaining_size = 65

(***************************************************************************)
(* The nodes in memory and the result of value_at                          *)
(***************************************************************************)

\* What a call shows outside the nodes in memory: the value it returns or
\* the exception it raises, its writes in their order, and the shuffler's
\* sizes and the persistence manager it leaves
Effect(r) ==
    [value |-> r.value, raised |-> r.st.raised, log |-> r.st.log,
     size |-> r.st.size, remaining_size |-> r.st.remaining_size,
     nodes |-> r.st.nodes, iv |-> r.st.iv, vi |-> r.st.vi]

\* value_at(i) with draw k has the same effect from the running shuffler,
\* from it after validate_state and from a shuffler constructed anew over
\* the same persistence manager
SameEffect(i, k) ==
    \A running \in {Effect(value_at(Current, i, k))} :
        /\ Effect(value_at(validate_state(Current), i, k)) = running
        /\ Effect(value_at(Reconstructed, i, k)) = running

\* C34: the result and the persisted effect of value_at depend only on
\* the persisted state, the size, the regime and the random draw, not on
\* which nodes are materialised in memory: a shuffler that kept running,
\* one on which validate_state was called, and one freshly reconstructed
\* from the same persistence manager return the same value and write the
\* same state for the same call and the same draw.
C34_MemoryIndependent ==
    /\ validate_state(Current).raised = "none"
    /\ Reconstructed.raised = "none"
    /\ Reconstructed.remaining_size = remaining_size
    /\ \A i \in TriedIndexes(Current) \cup {-1, size} : \A k \in TriedDraws(Current) :
        SameEffect(i, k)

\* A cyclic shuffler of 130 entries with values given to the indexes
\* 0..127: the running shuffler, the validated one and the reconstructed
\* one hold different nodes in memory, and value_at(129) with draw 0
\* returns the same value from each
C34_Witness ==
    /\ cyclic /\ size = 130 /\ remaining_size = 2 /\ raised = "none"
    /\ DOMAIN Reconstructed.mem = {<<>>}
    /\ DOMAIN mem # {<<>>}
    /\ DOMAIN validate_state(Current).mem # DOMAIN mem
    /\ value_at(Current, 129, 0).st.raised = "none"
    /\ value_at(Reconstructed, 129, 0).value = value_at(Current, 129, 0).value
    /\ value_at(validate_state(Current), 129, 0).value = value_at(Current, 129, 0).value

(***************************************************************************)
(* The minimum key of the validator                                        *)
(***************************************************************************)

\* The keys the walk of validate_state collects in the running shuffler
WalkedKeys == NodeValidate([st |-> Current, keys |-> <<>>], <<>>, size).keys

\* The keys the minimum key check is tried with, one at a time
TriedKeys == 120 .. 135

\* The validator requires the minimum key to be at least bound: it reports
\* a smaller key and no other, and the keys it collects pass
MinimumKeyBound(bound) ==
    /\ \A key \in TriedKeys :
        ValidateKeys(Current, <<key>>) = IF key < bound THEN "InvalidMinimumKey" ELSE "none"
    /\ Minimum(Range(WalkedKeys)) >= bound
    /\ validate_state(Current).raised = "none"

\* The statement of C35 as given: the validator requires the minimum node
\* key to be at least (64<<1)|1 = 129 and reports a violation for any
\* smaller key, and this check passes in every state reachable through
\* completed operations.
C35_MinimumKeyAsStated == MinimumKeyBound(129)

\* C35: the validator requires the minimum node key to be at least
\* (63<<1)|1 = 127, the terminal size bitmask shifted, and reports a
\* violation for any smaller key, and this check passes in every state
\* reachable through completed operations: 127 is the key of the
\* rightmost terminal node, which is the root of a shuffler of up to 64
\* entries, whose minimum key is always 127.
C35_MinimumKey ==
    /\ MinimumKeyBound(127)
    /\ size <= TERMINAL_SIZE => Minimum(Range(WalkedKeys)) = 127

\* A consumed shuffler of 130 entries right after validate_state: six keys
\* collected, the smallest of them 127, and no violation reported
C35_Witness ==
    /\ size = 130 /\ remaining_size = 0 /\ raised = "none"
    /\ mem = validate_state(Current).mem
    /\ DOMAIN mem # DOMAIN Reconstructed.mem
    /\ Range(WalkedKeys) = {511, 255, 127, 254, 510, 382}
    /\ Minimum(Range(WalkedKeys)) = 127

============================================================================
